---- MODULE Spec2Model ----
(***************************************************************************)
(* Context-aware edit engine of openrouter-code:                           *)
(*   src/src/tools/ts-context-engine.ts  (TSContextEngine)                 *)
(*   src/src/tools/enhanced-editing.ts   (EnhancedEditor)                  *)
(*                                                                         *)
(* Text is a sequence of one-character strings, "\n" being the line break. *)
(* Line and column numbers are 0-based as in the code; Line(ls, i) reads   *)
(* the code's lines[i].  The TypeScript parser is an external library: its *)
(* output, the table of named declarations with their line spans, is       *)
(* taken as given for the initial text (the engine parses once, in its     *)
(* constructor).  File system calls are assumed not to fail.               *)
(***************************************************************************)
EXTENDS Integers, Sequences, FiniteSets, TLC

\* ------------------------------------------------------------------ bounds
MaxCalls == 2
MaxOps == 2

\* ------------------------------------------------------------- text basics
NL == "\n"

Min(a, b) == IF a < b THEN a ELSE b

Max(a, b) == IF a > b THEN a ELSE b

\* characters matched by the regular expression class \s and removed by trim()
IsWhitespace(c) == c \in {" ", "\t", "\n", "\r"}

\* !text.trim()
IsBlank(s) == \A i \in 1..Len(s) : IsWhitespace(s[i])

\* text.split('\n')
RECURSIVE Split(_)
Split(s) ==
  IF \A i \in 1..Len(s) : s[i] # NL
  THEN <<s>>
  ELSE LET k == CHOOSE i \in 1..Len(s) :
                  s[i] = NL /\ \A j \in 1..(i - 1) : s[j] # NL
       IN <<SubSeq(s, 1, k - 1)>> \o Split(SubSeq(s, k + 1, Len(s)))

\* lines.join('\n')
RECURSIVE Join(_)
Join(ls) ==
  IF Len(ls) = 0 THEN <<>>
  ELSE IF Len(ls) = 1 THEN ls[1]
  ELSE ls[1] \o <<NL>> \o Join(Tail(ls))

\* lines[i] with the code's 0-based index
Line(ls, i) == ls[i + 1]

\* lines.slice(start, end)
Slice(ls, start, end) == SubSeq(ls, start + 1, end)

\* t.startsWith(s, i)
StartsAt(t, s, i) == i + Len(s) <= Len(t) /\ SubSeq(t, i + 1, i + Len(s)) = s

\* t.indexOf(s, from), -1 when absent
IndexOf(t, s, from) ==
  LET hits == {i \in from..(Len(t) - Len(s)) : StartsAt(t, s, i)}
  IN IF hits = {} THEN -1
     ELSE CHOOSE i \in hits : \A j \in hits : i <= j

\* t.includes(s)
Includes(t, s) == IndexOf(t, s, 0) # -1

\* The replacement text of String.prototype.replace: "$$" inserts "$", "$&"
\* the matched text, "$`" the text before the match and "$'" the text after
\* it; every other character is copied.
RECURSIVE ExpandReplacement(_, _, _, _)
ExpandReplacement(new, matched, before, after) ==
  IF Len(new) = 0 THEN <<>>
  ELSE IF new[1] = "$" /\ Len(new) >= 2 /\ new[2] \in {"$", "&", "`", "'"}
  THEN (CASE new[2] = "$" -> <<"$">>
          [] new[2] = "&" -> matched
          [] new[2] = "`" -> before
          [] new[2] = "'" -> after)
       \o ExpandReplacement(SubSeq(new, 3, Len(new)), matched, before, after)
  ELSE <<new[1]>> \o ExpandReplacement(Tail(new), matched, before, after)

\* t.replace(s, new) with a string pattern: the first occurrence only
ReplaceFirst(t, s, new) ==
  LET c == IndexOf(t, s, 0)
  IN IF c = -1 THEN t
     ELSE LET before == SubSeq(t, 1, c)
              after == SubSeq(t, c + Len(s) + 1, Len(t))
          IN before \o ExpandReplacement(new, s, before, after) \o after

\* t.replace(new RegExp(escapeRegExp(s), 'g'), new): every non-overlapping
\* literal match, left to right
RECURSIVE ReplaceAllFrom(_, _, _, _)
ReplaceAllFrom(t, s, new, from) ==
  LET c == IndexOf(t, s, from)
  IN IF c = -1 \/ Len(s) = 0 THEN SubSeq(t, from + 1, Len(t))
     ELSE SubSeq(t, from + 1, c)
          \o ExpandReplacement(new, s, SubSeq(t, 1, c),
                               SubSeq(t, c + Len(s) + 1, Len(t)))
          \o ReplaceAllFrom(t, s, new, c + Len(s))

\* (t.match(new RegExp(escapeRegExp(s), 'g')) || []).length
RECURSIVE CountMatchesFrom(_, _, _)
CountMatchesFrom(t, s, from) ==
  LET c == IndexOf(t, s, from)
  IN IF c = -1 \/ Len(s) = 0 THEN 0
     ELSE 1 + CountMatchesFrom(t, s, c + Len(s))

\* ------------------------------------------------------- program state
VARIABLES
  file,        \* content of the file at filePath on disk
  sourceText,  \* TSContextEngine.sourceText
  lines,       \* TSContextEngine.lines
  nodes,       \* named declarations of TSContextEngine.sourceFile, in visit order
  program,     \* TSContextEngine.program is defined
  diagnosed,   \* texts for which program.getSemanticDiagnostics reports something
  pc,          \* "idle", "returned", "thrown" (promise rejected) or "hung"
  calls,       \* number of calls made so far
  last,        \* the call in flight or just settled: inputs, result, effects
  filePath,    \* the path of the file on disk
  server,      \* a ServerManager, the processes it spawned and its caller
  tracker      \* a UsageTracker and what its caller has recorded with it

\* what the calls on an EnhancedEditor leave alone
others == <<filePath, server, tracker>>

\* the editor, its file and its caller
editor == <<file, sourceText, lines, nodes, program, diagnosed, pc, calls, last,
            filePath>>

vars == <<file, sourceText, lines, nodes, program, diagnosed, pc, calls, last,
          filePath, server, tracker>>

\* ------------------------------------------------------------ edit context
\* An EditContext; an absent name filter is "" (falsy, like undefined) and
\* requireUnique is "true", "false" or "undefined".
Context(fn, cls, ru) ==
  [withinFunction |-> fn, withinClass |-> cls, withinInterface |-> "",
   withinMethod |-> "", withinNamespace |-> "", requireUnique |-> ru]

HasScopeFilter(context) ==
  \/ context.withinFunction # ""
  \/ context.withinClass # ""
  \/ context.withinInterface # ""
  \/ context.withinMethod # ""
  \/ context.withinNamespace # ""

matchesContext(nodeContext, editContext) ==
  \/ /\ editContext.withinFunction # ""
     /\ nodeContext.scope = "function"
     /\ nodeContext.name = editContext.withinFunction
  \/ /\ editContext.withinClass # ""
     /\ nodeContext.scope = "class"
     /\ nodeContext.name = editContext.withinClass
  \/ /\ editContext.withinMethod # ""
     /\ nodeContext.scope = "method"
     /\ nodeContext.name = editContext.withinMethod
  \/ /\ editContext.withinInterface # ""
     /\ nodeContext.kind = "InterfaceDeclaration"
     /\ nodeContext.name = editContext.withinInterface
  \/ /\ editContext.withinNamespace # ""
     /\ nodeContext.scope = "namespace"
     /\ nodeContext.name = editContext.withinNamespace

findTargetNodes(ns, context) ==
  SelectSeq(ns, LAMBDA n : matchesContext(n, context))

determineScopeType(context) ==
  IF context.withinNamespace # "" THEN "namespace"
  ELSE IF context.withinClass # "" THEN "class"
  ELSE IF context.withinMethod # "" THEN "method"
  ELSE IF context.withinFunction # "" THEN "function"
  ELSE "global"

\* --------------------------------------------------------- occurrence finder
RECURSIVE SortAscending(_)
SortAscending(S) ==
  IF S = {} THEN <<>>
  ELSE LET m == CHOOSE x \in S : \A y \in S : x <= y
       IN <<m>> \o SortAscending(S \ {m})

\* the lines collected in an array: a line covered by two nodes comes twice
RECURSIVE getLinesInNodes_Array(_)
getLinesInNodes_Array(targetNodes) ==
  IF Len(targetNodes) = 0 THEN <<>>
  ELSE [k \in 1..(Head(targetNodes).endLine - Head(targetNodes).startLine + 1)
          |-> Head(targetNodes).startLine + k - 1]
       \o getLinesInNodes_Array(Tail(targetNodes))

\* the lines collected in a Set, then sorted ascending
getLinesInNodes(targetNodes) ==
  SortAscending(UNION {n.startLine..n.endLine : n \in
                         {targetNodes[k] : k \in 1..Len(targetNodes)}})

getSurroundingLines(ls, lineIndex, contextLines) ==
  Slice(ls, Max(0, lineIndex - contextLines),
        Min(Len(ls), lineIndex + contextLines + 1))

getSurroundingContext(ls, lineIndex, contextLines) ==
  Join(getSurroundingLines(ls, lineIndex, contextLines))

NoNode == [kind |-> "", name |-> "", scope |-> "global",
           startLine |-> 0, endLine |-> 0]

\* targetNodes.find(node => lineIndex >= node.startLine && lineIndex <= node.endLine)
FindNode(targetNodes, lineIndex) ==
  LET hits == {k \in 1..Len(targetNodes) :
                 /\ lineIndex >= targetNodes[k].startLine
                 /\ lineIndex <= targetNodes[k].endLine}
  IN IF hits = {} THEN [found |-> FALSE, node |-> NoNode]
     ELSE [found |-> TRUE,
           node |-> targetNodes[CHOOSE k \in hits : \A j \in hits : k <= j]]

\* the while loop over one line, from columnIndex on
RECURSIVE ScanLine(_, _, _, _, _)
ScanLine(ls, searchText, targetNodes, lineIndex, columnIndex) ==
  LET c == IndexOf(Line(ls, lineIndex), searchText, columnIndex)
      tag == FindNode(targetNodes, lineIndex)
  IN IF c = -1 THEN <<>>
     ELSE <<[line |-> lineIndex, column |-> c, text |-> Line(ls, lineIndex),
             hasNode |-> tag.found, nodeContext |-> tag.node,
             surroundingContext |-> getSurroundingContext(ls, lineIndex, 3)]>>
          \o ScanLine(ls, searchText, targetNodes, lineIndex,
                      c + Len(searchText))

\* The for loop over searchLines.  A line index past the end of lines reads
\* undefined and line.indexOf throws; an empty searchText is found at the
\* same column for ever (columnIndex += 0), so the loop does not end.
RECURSIVE ScanLines(_, _, _, _)
ScanLines(ls, searchText, targetNodes, searchLines) ==
  IF Len(searchLines) = 0 THEN [status |-> "ok", occurrences |-> <<>>]
  ELSE IF Head(searchLines) >= Len(ls)
  THEN [status |-> "throw", occurrences |-> <<>>]
  ELSE IF Len(searchText) = 0
  THEN [status |-> "hang", occurrences |-> <<>>]
  ELSE LET rest == ScanLines(ls, searchText, targetNodes, Tail(searchLines))
       IN [status |-> rest.status,
           occurrences |->
             IF rest.status = "ok"
             THEN ScanLine(ls, searchText, targetNodes, Head(searchLines), 0)
                  \o rest.occurrences
             ELSE <<>>]

findAllOccurrences(ls, searchText, targetNodes) ==
  LET searchLines == IF Len(targetNodes) > 0
                     THEN getLinesInNodes(targetNodes)
                     ELSE [i \in 1..Len(ls) |-> i - 1]
  IN ScanLines(ls, searchText, targetNodes, searchLines)

analyzeEditContext(ls, ns, searchText, context) ==
  LET targetNodes == IF HasScopeFilter(context)
                     THEN findTargetNodes(ns, context) ELSE <<>>
      found == findAllOccurrences(ls, searchText, targetNodes)
  IN [searchText |-> searchText, context |-> context,
      status |-> found.status, occurrences |-> found.occurrences,
      targetNodes |-> targetNodes,
      scope |-> IF HasScopeFilter(context)
                THEN determineScopeType(context) ELSE "global"]

\* ------------------------------------------------------------- validation
\* Error texts of the engine
ErrEmpty == "Old text cannot be empty"
ErrIdentical == "Old and new text are identical"
ErrUnsafe == "Edit failed safety validation"
ErrAmbiguous == "Edit is ambiguous"
ErrUnexpected == "Unexpected error"
NoError == ""

validateInputs(oldText, newText) ==
  IF IsBlank(oldText) THEN [valid |-> FALSE, error |-> ErrEmpty]
  ELSE IF oldText = newText THEN [valid |-> FALSE, error |-> ErrIdentical]
  ELSE [valid |-> TRUE, error |-> NoError]

\* line.match(/^\s*/)[0]
RECURSIVE LeadingWhitespace(_)
LeadingWhitespace(s) ==
  IF Len(s) = 0 \/ ~IsWhitespace(s[1]) THEN <<>>
  ELSE <<s[1]>> \o LeadingWhitespace(Tail(s))

RECURSIVE IndentationIssuesFrom(_, _, _)
IndentationIssuesFrom(oldLines, newLines, i) ==
  IF i > Min(Len(oldLines), Len(newLines)) THEN <<>>
  ELSE (IF /\ LeadingWhitespace(oldLines[i]) # LeadingWhitespace(newLines[i])
           /\ ~IsBlank(oldLines[i])
           /\ ~IsBlank(newLines[i])
        THEN <<[line |-> i, from |-> LeadingWhitespace(oldLines[i]),
                to |-> LeadingWhitespace(newLines[i])]>>
        ELSE <<>>)
       \o IndentationIssuesFrom(oldLines, newLines, i + 1)

\* the issues, each as the line number of its message with the two indents
validateIndentation(oldText, newText) ==
  IndentationIssuesFrom(Split(oldText), Split(newText), 1)

\* The loop shared by checkBraceBalance and checkParenBalance: the running
\* count after the characters of text, or -1 as soon as it goes negative.
RECURSIVE RunningBalance(_, _, _, _)
RunningBalance(text, open, close, count) ==
  IF Len(text) = 0 THEN count
  ELSE LET c == count + (IF text[1] = open THEN 1 ELSE 0)
                      - (IF text[1] = close THEN 1 ELSE 0)
       IN IF c < 0 THEN -1
          ELSE RunningBalance(Tail(text), open, close, c)

\* the count is compared with zero at the end only
RECURSIVE FinalBalance(_, _, _)
FinalBalance(text, open, close) ==
  IF Len(text) = 0 THEN 0
  ELSE FinalBalance(Tail(text), open, close)
       + (IF text[1] = open THEN 1 ELSE 0) - (IF text[1] = close THEN 1 ELSE 0)

checkBraceBalance_FinalOnly(text) ==
  [balanced |-> FinalBalance(text, "{", "}") = 0]

checkBraceBalance(text) ==
  [balanced |-> RunningBalance(text, "{", "}", 0) = 0]

checkParenBalance(text) ==
  [balanced |-> RunningBalance(text, "(", ")", 0) = 0]

validateSyntax(newText) ==
  LET warnings ==
        (IF ~checkBraceBalance(newText).balanced
         THEN <<"Unbalanced braces">> ELSE <<>>)
        \o (IF ~checkParenBalance(newText).balanced
            THEN <<"Unbalanced parentheses">> ELSE <<>>)
        \o (IF program /\ newText \in diagnosed
            THEN <<"TypeScript">> ELSE <<>>)
  IN [valid |-> Len(warnings) = 0, warnings |-> warnings]

\* --------------------------------------------------------- disambiguation
hasNearbyComment(ls, lineIndex) ==
  \E i \in Max(0, lineIndex - 2)..Min(Len(ls) - 1, lineIndex + 2) :
    Includes(Line(ls, i), <<"/", "/">>) \/ Includes(Line(ls, i), <<"/", "*">>)

RECURSIVE CommentStart(_, _)
CommentStart(ls, start) ==
  IF start > 0 /\ (Includes(Line(ls, start - 1), <<"/", "/">>)
                   \/ IsBlank(Line(ls, start - 1)))
  THEN CommentStart(ls, start - 1) ELSE start

RECURSIVE CommentEnd(_, _)
CommentEnd(ls, end) ==
  IF end < Len(ls) - 1 /\ (Includes(Line(ls, end + 1), <<"/", "/">>)
                           \/ IsBlank(Line(ls, end + 1)))
  THEN CommentEnd(ls, end + 1) ELSE end

getCommentContext(ls, lineIndex) ==
  Join(Slice(ls, CommentStart(ls, lineIndex), CommentEnd(ls, lineIndex) + 1))

\* confidence in tenths: 9 is 0.9
SuggestionsFor(ls, oldText, newText, occ) ==
  LET surroundingContext == Join(getSurroundingLines(ls, occ.line, 2))
      commentContext == getCommentContext(ls, occ.line)
  IN (IF Includes(surroundingContext, oldText)
      THEN <<[strategy |-> "surrounding_context",
              oldString |-> surroundingContext,
              newString |-> ReplaceFirst(surroundingContext, oldText, newText),
              confidence |-> 9, line |-> occ.line + 1, scopeName |-> ""]>>
      ELSE <<>>)
     \o (IF Includes(Line(ls, occ.line), <<"/", "/">>)
            \/ hasNearbyComment(ls, occ.line)
         THEN <<[strategy |-> "comment_context",
                 oldString |-> commentContext,
                 newString |-> ReplaceFirst(commentContext, oldText, newText),
                 confidence |-> 8, line |-> occ.line + 1, scopeName |-> ""]>>
         ELSE <<>>)
     \o (IF occ.hasNode
         THEN <<[strategy |-> "scope_context",
                 oldString |-> oldText, newString |-> newText,
                 confidence |-> 7, line |-> occ.line + 1,
                 scopeName |-> occ.nodeContext.name]>>
         ELSE <<>>)

\* Array.prototype.sort((a, b) => b.confidence - a.confidence), which is stable
RECURSIVE InsertByConfidence(_, _)
RECURSIVE SortByConfidence(_)

\* the suggestions left in the order in which they were pushed
SortByConfidence_Unsorted(s) == s

InsertByConfidence(x, sorted) ==
  IF Len(sorted) = 0 THEN <<x>>
  ELSE IF Head(sorted).confidence <= x.confidence THEN <<x>> \o sorted
  ELSE <<Head(sorted)>> \o InsertByConfidence(x, Tail(sorted))

SortByConfidence(s) ==
  IF Len(s) <= 1 THEN s
  ELSE InsertByConfidence(Head(s), SortByConfidence(Tail(s)))

RECURSIVE AllSuggestions(_, _, _, _)
AllSuggestions(ls, oldText, newText, occurrences) ==
  IF Len(occurrences) = 0 THEN <<>>
  ELSE SuggestionsFor(ls, oldText, newText, Head(occurrences))
       \o AllSuggestions(ls, oldText, newText, Tail(occurrences))

generateDisambiguationSuggestions_None(ls, oldText, newText, occurrences) == <<>>

generateDisambiguationSuggestions(ls, oldText, newText, occurrences) ==
  SortByConfidence(AllSuggestions(ls, oldText, newText, occurrences))

\* the overall safety assessment of validateEdit
SafetyAssessment_NoIndentation(syntaxValid, indentationIssues, isUnique, requireUnique) ==
  syntaxValid /\ (isUnique \/ requireUnique = "false")

SafetyAssessment(syntaxValid, indentationIssues, isUnique, requireUnique) ==
  /\ syntaxValid
  /\ Len(indentationIssues) = 0
  /\ (isUnique \/ requireUnique = "false")

validateEdit(ls, oldText, newText, analysis) ==
  LET isUnique == Len(analysis.occurrences) = 1
      indentationIssues == validateIndentation(oldText, newText)
      syntaxCheck == validateSyntax(newText)
  IN [isUnique |-> isUnique,
      isSafe |-> SafetyAssessment(syntaxCheck.valid, indentationIssues,
                                  isUnique, analysis.context.requireUnique),
      syntaxValid |-> syntaxCheck.valid,
      occurrences |-> Len(analysis.occurrences),
      indentationIssues |-> indentationIssues,
      syntaxWarnings |-> syntaxCheck.warnings,
      suggestions |-> IF ~isUnique
                      THEN generateDisambiguationSuggestions(
                             ls, oldText, newText, analysis.occurrences)
                      ELSE <<>>]

\* an EditResult without a validation carries this one, with hasValidation FALSE
NoValidation ==
  [isUnique |-> FALSE, isSafe |-> FALSE, syntaxValid |-> FALSE,
   occurrences |-> 0, indentationIssues |-> <<>>, syntaxWarnings |-> <<>>,
   suggestions |-> <<>>]

\* ------------------------------------------------------------ edit applier
\* The engine and the file it edits, as one value the operations transform:
\* file is the content on disk, written the contents that the calls of
\* fs.writeFileSync have put there, in order.
World(f, st, ls, w) ==
  [file |-> f, sourceText |-> st, lines |-> ls, written |-> w]

\* the for loop of replaceInScope from line i on: the first line of the scope
\* that includes oldText has its first occurrence replaced
RECURSIVE ReplaceInLines(_, _, _, _, _)
ReplaceInLines(ls, oldText, newText, i, endLine) ==
  IF ~(i <= endLine /\ i < Len(ls)) THEN ls
  ELSE IF Includes(Line(ls, i), oldText)
  THEN [ls EXCEPT ![i + 1] = ReplaceFirst(Line(ls, i), oldText, newText)]
  ELSE ReplaceInLines(ls, oldText, newText, i + 1, endLine)

replaceInScope(content, oldText, newText, scope) ==
  Join(ReplaceInLines(Split(content), oldText, newText,
                      scope.startLine, scope.endLine))

\* oldLines[i] || '' for a 0-based i that may be past the end
LineOrEmpty(ls, i) == IF i < Len(ls) THEN Line(ls, i) ELSE <<>>

countActualChanges(oldContent, newContent) ==
  LET oldLines == Split(oldContent)
      newLines == Split(newContent)
      maxLines == Max(Len(oldLines), Len(newLines))
  IN Cardinality({i \in 0..(maxLines - 1) :
                    LineOrEmpty(oldLines, i) # LineOrEmpty(newLines, i)})

countPotentialChanges(analysis) == Len(analysis.occurrences)

\* An EditResult.  Absent fields: error "" , linesChanged -1, replacements -1
\* (the count in the message), preview <<>>, hasValidation FALSE.
EditResult(success, error, hasValidation, validation, linesChanged, replacements, preview) ==
  [success |-> success, error |-> error, hasValidation |-> hasValidation,
   validation |-> validation, linesChanged |-> linesChanged,
   replacements |-> replacements, preview |-> preview]

\* the content applyEdit computes and writes
AppliedContent(text, oldText, newText, analysis) ==
  IF Len(analysis.targetNodes) > 0
  THEN replaceInScope(text, oldText, newText, analysis.targetNodes[1])
  ELSE ReplaceAllFrom(text, oldText, newText, 0)

\* applyEdit: linesChanged is counted after sourceText has been assigned
applyEdit(w, oldText, newText, analysis, validation) ==
  LET newContent == AppliedContent(w.sourceText, oldText, newText, analysis)
      replacements == IF Len(analysis.targetNodes) > 0 THEN 1
                      ELSE CountMatchesFrom(w.sourceText, oldText, 0)
  IN [result |-> EditResult(TRUE, NoError, TRUE, validation,
                            countActualChanges(newContent, newContent),
                            replacements, <<>>),
      world |-> World(newContent, newContent, Split(newContent),
                      Append(w.written, newContent))]

\* a failure of editWithContext: nothing is written, the engine is as it was
EditFailure(w, error, hasValidation, validation) ==
  [result |-> EditResult(FALSE, error, hasValidation, validation, -1, -1, <<>>),
   world |-> w]

\* steps 3 to 5 of editWithContext, the validation having been computed
EditValidated(w, oldText, newText, context, analysis, validation) ==
  IF ~validation.isSafe THEN EditFailure(w, ErrUnsafe, TRUE, validation)
  ELSE IF ~validation.isUnique /\ context.requireUnique # "false"
  THEN EditFailure(w, ErrAmbiguous, TRUE, validation)
  ELSE applyEdit(w, oldText, newText, analysis, validation)

\* editWithContext after step 2; an exception of the scan is caught
EditAnalyzed(w, oldText, newText, context, analysis) ==
  IF analysis.status # "ok"
  THEN EditFailure(w, ErrUnexpected, FALSE, NoValidation)
  ELSE EditValidated(w, oldText, newText, context, analysis,
                     validateEdit(w.lines, oldText, newText, analysis))

editWithContext(w, oldText, newText, context) ==
  IF ~validateInputs(oldText, newText).valid
  THEN EditFailure(w, validateInputs(oldText, newText).error, FALSE, NoValidation)
  ELSE EditAnalyzed(w, oldText, newText, context,
                    analyzeEditContext(w.lines, nodes, oldText, context))

\* ---------------------------------------------------------------- preview
\* lines of the preview copy after the loop over the occurrences from k on
RECURSIVE PreviewLines(_, _, _, _, _)
PreviewLines(ls, oldText, newText, occurrences, k) ==
  IF k > Len(occurrences) THEN ls
  ELSE LET i == occurrences[k].line
           next == IF Includes(Line(ls, i), oldText)
                   THEN [ls EXCEPT ![i + 1] = ReplaceFirst(Line(ls, i), oldText, newText)]
                   ELSE ls
       IN PreviewLines(next, oldText, newText, occurrences, k + 1)

\* one hunk: the header, then the lines start..end-1 with their prefix
Hunk(before, after, occ) ==
  LET start == Max(0, occ.line - 3)
      end == Min(Len(after), occ.line + 3 + 1)
  IN <<[prefix |-> "@@", start |-> start + 1, len |-> end - start, text |-> <<>>]>>
     \o [k \in 1..(end - start) |->
           LET i == start + k - 1
           IN [prefix |-> IF i = occ.line /\ Line(before, i) # Line(after, i)
                          THEN "+" ELSE " ",
               start |-> 0, len |-> 0, text |-> Line(after, i)]]

RECURSIVE Hunks(_, _, _)
Hunks(before, after, occurrences) ==
  IF Len(occurrences) = 0 THEN <<>>
  ELSE Hunk(before, after, Head(occurrences))
       \o Hunks(before, after, Tail(occurrences))

\* the diff, one entry per output line
generatePreview(ls, oldText, newText, analysis) ==
  Hunks(ls, PreviewLines(ls, oldText, newText, analysis.occurrences, 1),
        analysis.occurrences)

\* generatePreview changes the lines of the preview in place
PreviewedEngine_InPlace(w, previewLines) == [w EXCEPT !.lines = previewLines]

\* const lines = [...this.lines]: generatePreview changes a copy, the engine's
\* lines stay as they are
PreviewedEngine(w, previewLines) == w

PreviewAnalyzed(w, oldText, newText, analysis) ==
  IF analysis.status # "ok"
  THEN [status |-> analysis.status,
        result |-> EditResult(FALSE, NoError, FALSE, NoValidation, -1, -1, <<>>),
        world |-> w]
  ELSE [status |-> "ok",
        result |-> EditResult(TRUE, NoError, TRUE,
                              validateEdit(w.lines, oldText, newText, analysis),
                              countPotentialChanges(analysis), -1,
                              generatePreview(w.lines, oldText, newText, analysis)),
        world |-> PreviewedEngine(
                    w, PreviewLines(w.lines, oldText, newText,
                                    analysis.occurrences, 1))]

\* previewEdit: status is "ok" when it returns, "throw" or "hang" otherwise;
\* world is the engine and the file after the call
previewEdit(w, oldText, newText, context) ==
  PreviewAnalyzed(w, oldText, newText,
                  analyzeEditContext(w.lines, nodes, oldText, context))

\* ---------------------------------------------------------- EnhancedEditor
\* What a call hands back: an EnhancedEditResult, or an EditResult of the
\* engine with editsApplied -1.  failedOperation is the 1-based index named
\* in the error of enhancedMultiEdit, 0 otherwise.
CallResult(r, editsApplied, linesChanged, suggestions, failedOperation) ==
  [success |-> r.success, error |-> r.error,
   hasValidation |-> r.hasValidation, validation |-> r.validation,
   linesChanged |-> linesChanged, replacements |-> r.replacements,
   preview |-> r.preview, editsApplied |-> editsApplied,
   suggestions |-> suggestions, failedOperation |-> failedOperation]

EngineResult(r) == CallResult(r, -1, r.linesChanged, <<>>, 0)

\* engineResult.linesChanged || 0
OrZero(n) == IF n = -1 THEN 0 ELSE n

formatResult(engineResult, editsApplied) ==
  CallResult(engineResult, editsApplied, OrZero(engineResult.linesChanged),
             IF engineResult.hasValidation
             THEN engineResult.validation.suggestions ELSE <<>>, 0)

\* requireUnique: options.requireUnique ?? true
DefaultUnique(context) ==
  [context EXCEPT !.requireUnique = IF @ = "undefined" THEN "true" ELSE @]

\* the dry run: the preview, formatted
DryRunResult(w, preview) ==
  [status |-> preview.status, result |-> formatResult(preview.result, 0),
   world |-> preview.world]

\* the edit, formatted
EditedResult(edit) ==
  [status |-> "ok",
   result |-> formatResult(edit.result, IF edit.result.success THEN 1 ELSE 0),
   world |-> edit.world]

\* status "ok": the call returned result; "throw" or "hang": it did not
enhancedSearchReplace(w, oldString, newString, options, dryRun) ==
  IF dryRun
  THEN DryRunResult(w, previewEdit(w, oldString, newString,
                                   DefaultUnique(options)))
  ELSE EditedResult(editWithContext(w, oldString, newString,
                                    DefaultUnique(options)))

\* options of the calls smartEdit makes: { oldString, newString, requireUnique: true }
UniqueOnly == Context("", "", "true")

\* the context {} of the previews of smartEdit and generateEditStrategies
EmptyContext == Context("", "", "undefined")

\* suggestions.reduce((best, current) =>
\*   current.confidence > best.confidence ? current : best):
\* the first suggestion of the greatest confidence
BestSuggestion(suggestions) ==
  suggestions[CHOOSE i \in 1..Len(suggestions) :
                /\ \A j \in 1..Len(suggestions) :
                     suggestions[j].confidence <= suggestions[i].confidence
                /\ \A j \in 1..(i - 1) :
                     suggestions[j].confidence < suggestions[i].confidence]

\* smartEdit, suggestions being those of the global preview, which was not
\* both unique and safe
SmartEditAmbiguous(globalPreview, suggestions) ==
  IF Len(suggestions) > 0
     /\ BestSuggestion(suggestions).strategy = "surrounding_context"
  THEN enhancedSearchReplace(globalPreview.world,
                             BestSuggestion(suggestions).oldString,
                             BestSuggestion(suggestions).newString,
                             UniqueOnly, FALSE)
  ELSE [status |-> "ok", result |-> formatResult(globalPreview.result, 0),
        world |-> globalPreview.world]

\* smartEdit after its first step, the preview without context
SmartEditPreviewed(oldString, newString, globalPreview) ==
  IF globalPreview.status # "ok"
  THEN [status |-> globalPreview.status,
        result |-> formatResult(globalPreview.result, 0),
        world |-> globalPreview.world]
  ELSE IF /\ globalPreview.result.validation.isUnique
          /\ globalPreview.result.validation.isSafe
  THEN enhancedSearchReplace(globalPreview.world, oldString, newString,
                             UniqueOnly, FALSE)
  ELSE SmartEditAmbiguous(globalPreview,
                          globalPreview.result.validation.suggestions)

smartEdit(w, oldString, newString) ==
  SmartEditPreviewed(oldString, newString,
                     previewEdit(w, oldString, newString, EmptyContext))

\* EnhancedEditor.validateEdit: { requireUnique: true, ...context }
EnhancedEditor_validateEdit(w, oldString, newString, context) ==
  previewEdit(w, oldString, newString, DefaultUnique(context))

\* What generateEditStrategies hands back; occurrences is -1 when absent.  A
\* strategy has the fields of a suggestion, the direct one with confidence
\* 10 (1.0) and no line.
Strategies(isUnique, occurrences, strategies) ==
  [isUnique |-> isUnique, occurrences |-> occurrences,
   strategies |-> strategies]

DirectStrategy(oldString, newString) ==
  [strategy |-> "direct", oldString |-> oldString, newString |-> newString,
   confidence |-> 10, line |-> 0, scopeName |-> ""]

StrategiesPreviewed(oldString, newString, preview) ==
  IF preview.status # "ok"
  THEN [status |-> preview.status, result |-> Strategies(FALSE, -1, <<>>),
        world |-> preview.world]
  ELSE IF preview.result.validation.isUnique
  THEN [status |-> "ok",
        result |-> Strategies(TRUE, -1,
                              <<DirectStrategy(oldString, newString)>>),
        world |-> preview.world]
  ELSE [status |-> "ok",
        result |-> Strategies(FALSE, preview.result.validation.occurrences,
                              preview.result.validation.suggestions),
        world |-> preview.world]

generateEditStrategies(w, oldString, newString) ==
  StrategiesPreviewed(oldString, newString,
                      previewEdit(w, oldString, newString, EmptyContext))

RECURSIVE ValidateOperations(_, _, _)
\* one turn of the validation loop, preview being what previewEdit gave for
\* operation k
ValidateStep(w, operations, k, preview) ==
  IF preview.status # "ok"
  THEN [status |-> preview.status, failedOperation |-> k, suggestions |-> <<>>]
  ELSE IF ~preview.result.success
  THEN [status |-> "rejected", failedOperation |-> k, suggestions |-> <<>>]
  ELSE [ValidateOperations(w, operations, k + 1) EXCEPT
          !.suggestions = preview.result.validation.suggestions \o @]

\* "Validate all operations first": the loop over previewEdit, from operation k
ValidateOperations(w, operations, k) ==
  IF k > Len(operations)
  THEN [status |-> "ok", failedOperation |-> 0, suggestions |-> <<>>]
  ELSE ValidateStep(w, operations, k,
                    previewEdit(w, operations[k].oldString,
                                operations[k].newString,
                                DefaultUnique(operations[k].context)))

\* what the rollback writes to the file
RollbackContent_Skip(current, backupContent) == current

RollbackContent(current, backupContent) == backupContent

\* the engine is left as the failed edit left it; the file gets the backup
RolledBack(w, backupContent) ==
  [w EXCEPT !.file = RollbackContent(w.file, backupContent),
            !.written = Append(@, RollbackContent(w.file, backupContent))]

RECURSIVE ApplyOperations(_, _, _, _, _, _)
\* one turn of the apply loop, r being what editWithContext gave for operation k
ApplyStep(operations, k, backupContent, totalEditsApplied, totalLinesChanged, r) ==
  IF r.result.success
  THEN ApplyOperations(r.world, operations, k + 1, backupContent,
                       totalEditsApplied + 1,
                       totalLinesChanged + OrZero(r.result.linesChanged))
  ELSE [success |-> FALSE, error |-> r.result.error,
        failedOperation |-> k, editsApplied |-> 0, linesChanged |-> 0,
        world |-> RolledBack(r.world, backupContent)]

\* "Apply all operations atomically": the loop over editWithContext, from operation k
ApplyOperations(w, operations, k, backupContent, totalEditsApplied, totalLinesChanged) ==
  IF k > Len(operations)
  THEN [success |-> TRUE, error |-> NoError, failedOperation |-> 0,
        editsApplied |-> totalEditsApplied,
        linesChanged |-> totalLinesChanged, world |-> w]
  ELSE ApplyStep(operations, k, backupContent, totalEditsApplied,
                 totalLinesChanged,
                 editWithContext(w, operations[k].oldString,
                                 operations[k].newString,
                                 DefaultUnique(operations[k].context)))

NoResult == EditResult(FALSE, NoError, FALSE, NoValidation, -1, -1, <<>>)

\* the result of the apply phase as an EnhancedEditResult
AppliedResult(checked, applied) ==
  [status |-> "ok",
   result |-> CallResult(
                EditResult(applied.success, applied.error, FALSE,
                           NoValidation, -1, -1, <<>>),
                applied.editsApplied, applied.linesChanged,
                IF applied.success THEN checked.suggestions ELSE <<>>,
                applied.failedOperation),
   world |-> applied.world]

\* enhancedMultiEdit, checked being the outcome of the validation phase
MultiEditChecked(w, operations, checked) ==
  IF checked.status \in {"throw", "hang"}
  THEN [status |-> checked.status,
        result |-> CallResult(NoResult, 0, 0, <<>>, checked.failedOperation),
        world |-> w]
  ELSE IF checked.status = "rejected"
  THEN [status |-> "ok",
        result |-> CallResult(NoResult, 0, 0, <<>>, checked.failedOperation),
        world |-> w]
  ELSE AppliedResult(checked, ApplyOperations(w, operations, 1, w.file, 0, 0))

enhancedMultiEdit(w, operations) ==
  MultiEditChecked(w, operations, ValidateOperations(w, operations, 1))

\* { ...op, context: { ...op.context, withinFunction: functionName } }
InFunction(op, functionName) ==
  [op EXCEPT !.context.withinFunction = functionName]

\* { ...op, context: { ...op.context, withinClass: className } }
InClass(op, className) ==
  [op EXCEPT !.context.withinClass = className]

refactorFunction(w, functionName, operations) ==
  enhancedMultiEdit(w, [k \in 1..Len(operations) |->
                          InFunction(operations[k], functionName)])

refactorClass(w, className, operations) ==
  enhancedMultiEdit(w, [k \in 1..Len(operations) |->
                          InClass(operations[k], className)])

\* ------------------------------------------------- legacy compatibility layer
\* ext.toLowerCase() for the extensions the model uses
ToLowerCase(ext) ==
  CASE ext = ".TS" -> ".ts"
    [] ext = ".TSX" -> ".tsx"
    [] ext = ".JS" -> ".js"
    [] OTHER -> ext

isJavaScriptOrTypeScript(path) ==
  ToLowerCase(path.ext) \in {".js", ".jsx", ".ts", ".tsx", ".mjs", ".cjs"}

\* A LegacySearchReplaceParams; replace_all is "true", "false" or "undefined"
LegacyParams(file_path, old_string, new_string, replace_all) ==
  [file_path |-> file_path, old_string |-> old_string,
   new_string |-> new_string, replace_all |-> replace_all]

\* error texts of the compatibility layer
ErrFileNotFound == "File not found"
ErrTextNotFound == "Text not found in file"
ErrSeveral == "Found several occurrences. Use replace_all=true"
ErrConstructor == "Enhanced editing only supports JavaScript/TypeScript files"

\* an EnhancedEditResult of the compatibility layer
LegacyResult(success, error, editsApplied, linesChanged) ==
  CallResult(EditResult(success, error, FALSE, NoValidation, -1, -1, <<>>),
             editsApplied, linesChanged, <<>>, 0)

\* content.replace(new RegExp('', 'g'), new): the empty pattern matches
\* before every character and at the end
RECURSIVE ReplaceEmptyFrom(_, _, _)
ReplaceEmptyFrom(t, new, from) ==
  ExpandReplacement(new, <<>>, SubSeq(t, 1, from), SubSeq(t, from + 1, Len(t)))
  \o (IF from = Len(t) THEN <<>>
      ELSE <<t[from + 1]>> \o ReplaceEmptyFrom(t, new, from + 1))

\* (content.match(new RegExp(escapeRegExp(s), 'g')) || []).length
CountRegExpMatches(content, s) ==
  IF Len(s) = 0 THEN Len(content) + 1 ELSE CountMatchesFrom(content, s, 0)

\* content.replace(new RegExp(escapeRegExp(s), 'g'), new)
ReplaceRegExp(content, s, new) ==
  IF Len(s) = 0 THEN ReplaceEmptyFrom(content, new, 0)
  ELSE ReplaceAllFrom(content, s, new, 0)

\* function countChangedLines of enhanced-editing.ts
countChangedLines(oldContent, newContent) ==
  Cardinality({i \in 0..(Max(Len(Split(oldContent)), Len(Split(newContent))) - 1) :
                 LineOrEmpty(Split(oldContent), i) # LineOrEmpty(Split(newContent), i)})

\* the content basicSearchReplace writes
BasicContent(content, params) ==
  IF params.replace_all = "true"
  THEN ReplaceRegExp(content, params.old_string, params.new_string)
  ELSE ReplaceFirst(content, params.old_string, params.new_string)

\* basicSearchReplace, occurrences being the number of matches in the file
BasicCounted(w, params, occurrences) ==
  IF occurrences = 0
  THEN [status |-> "ok", result |-> LegacyResult(FALSE, ErrTextNotFound, 0, 0),
        world |-> w]
  ELSE IF occurrences > 1 /\ params.replace_all # "true"
  THEN [status |-> "ok", result |-> LegacyResult(FALSE, ErrSeveral, 0, 0),
        world |-> w]
  ELSE [status |-> "ok",
        result |-> LegacyResult(TRUE, NoError, occurrences,
                                countChangedLines(w.file, BasicContent(w.file, params))),
        world |-> [w EXCEPT !.file = BasicContent(w.file, params),
                            !.written = Append(@, BasicContent(w.file, params))]]

basicSearchReplace(w, params) ==
  BasicCounted(w, params, CountRegExpMatches(w.file, params.old_string))

\* the engine new EnhancedEditor(file_path) constructs: it reads the file
Constructed(w) == World(w.file, w.file, Split(w.file), <<>>)

\* requireUnique: !params.replace_all
NotReplaceAll(replace_all) == IF replace_all = "true" THEN "false" ELSE "true"

\* contextAwareSearchReplace on the file at path; exists says whether
\* params.file_path names it.  new EnhancedEditor(...) stands before the try
\* block: what its constructor throws rejects the call.  Inside the block the
\* promise of enhancedSearchReplace is returned as it is.
contextAwareSearchReplace(w, path, exists, params) ==
  IF ~exists
  THEN [status |-> "ok", result |-> LegacyResult(FALSE, ErrFileNotFound, 0, 0),
        world |-> w]
  ELSE IF ~isJavaScriptOrTypeScript(path)
  THEN [status |-> "throw", result |-> LegacyResult(FALSE, ErrConstructor, 0, 0),
        world |-> w]
  ELSE IF isJavaScriptOrTypeScript(path)
  THEN enhancedSearchReplace(Constructed(w), params.old_string,
                             params.new_string,
                             Context("", "", NotReplaceAll(params.replace_all)),
                             FALSE)
  ELSE basicSearchReplace(w, params)

\* ------------------------------------------------------------------ inputs
Operation(oldString, newString, context) ==
  [oldString |-> oldString, newString |-> newString, context |-> context]

OldStrings == {<<>>, <<"a">>, <<"b">>, <<"a", NL, "b">>}

NewStrings == {<<"a">>, <<"b">>, <<"(">>, <<"}", "{">>, <<"$", "&">>,
               <<" ", "a">>, <<"b", NL, "b">>}

FunctionNames == {"", "f", "g"}

Contexts == {Context(fn, "", ru) :
               fn \in FunctionNames, ru \in {"false", "undefined"}}

\* the options of enhancedSearchReplace, with or without dryRun
Options == {Context(fn, "", ru) :
              fn \in {"", "f"}, ru \in {"true", "false", "undefined"}}

NoFilter == Context("", "", "undefined")

\* the contexts of EnhancedEditor.validateEdit, which is the dry run of
\* enhancedSearchReplace under another name
ValidateContexts ==
  {NoFilter, Context("f", "", "undefined"), Context("", "", "false")}

BatchOperations ==
  {Operation(<<"a">>, <<"b">>, NoFilter),
   Operation(<<"b">>, <<"a">>, NoFilter),
   Operation(<<"a">>, <<"a">>, NoFilter),
   Operation(<<>>, <<"a">>, NoFilter),
   Operation(<<"a">>, <<"b">>, Context("", "", "false"))}

Batches == UNION {[1..n -> BatchOperations] : n \in 0..MaxOps}

\* --------------------------------------------------------- EnhancedTSEditor
\* src/enhanced-ts-editor.js and its analyzer, a TSContextEditor
\* (ts-context-editor.js).  The analyzer reads the file in its constructor:
\* ls are its lines and ns the declarations of its tree, as they were then.

\* findNodeContext(nodeName, nodeType)
findNodeContext(ns, nodeName, nodeType) ==
  SelectSeq(ns, LAMBDA n : n.name = nodeName
                           /\ (nodeType = "any" \/ n.scope = nodeType))

\* the 0-based indices below n of the lines of scope that include searchText
RECURSIVE LinesIncluding(_, _, _)
LinesIncluding(scope, searchText, n) ==
  IF n = 0 THEN <<>>
  ELSE LinesIncluding(scope, searchText, n - 1)
       \o (IF Includes(scope[n], searchText) THEN <<n - 1>> ELSE <<>>)

\* the scope of generateEditContext: narrowed when exactly one declaration
\* has the name
EditScope(ls, contexts) ==
  IF Len(contexts) = 1
  THEN [start |-> contexts[1].startLine,
        lines |-> Slice(ls, contexts[1].startLine,
                        Min(Len(ls), contexts[1].endLine + 1))]
  ELSE [start |-> 0, lines |-> ls]

\* occurrences are the 1-based numbers of the lines found
ScopeOccurrences(scope, searchText) ==
  [k \in 1..Len(LinesIncluding(scope.lines, searchText, Len(scope.lines))) |->
     scope.start
       + LinesIncluding(scope.lines, searchText, Len(scope.lines))[k] + 1]

generateEditContext(ls, ns, searchText, targetContext) ==
  [occurrences |->
     ScopeOccurrences(EditScope(ls, IF targetContext # ""
                                    THEN findNodeContext(ns, targetContext, "any")
                                    ELSE <<>>),
                      searchText),
   isUnique |->
     Len(ScopeOccurrences(EditScope(ls, IF targetContext # ""
                                        THEN findNodeContext(ns, targetContext, "any")
                                        ELSE <<>>),
                          searchText)) = 1]

\* 'function'
FunctionWord == <<"f", "u", "n", "c", "t", "i", "o", "n">>

\* TSContextEditor.validateEdit
TSContextEditor_validateEdit(ls, ns, oldText, newText, targetContext) ==
  [isUnique |-> generateEditContext(ls, ns, oldText, targetContext).isUnique,
   occurrences |->
     Len(generateEditContext(ls, ns, oldText, targetContext).occurrences),
   indentationIssues |->
     IF Len(Split(oldText)) > 1 /\ Len(Split(newText)) > 1
     THEN IndentationIssuesFrom(Split(oldText), Split(newText), 1) ELSE <<>>,
   syntaxWarnings |->
     IF Includes(newText, FunctionWord) /\ ~Includes(newText, <<"{">>)
     THEN <<"missing opening brace">> ELSE <<>>,
   safe |->
     /\ generateEditContext(ls, ns, oldText, targetContext).isUnique
     /\ ~(/\ Len(Split(oldText)) > 1 /\ Len(Split(newText)) > 1
          /\ IndentationIssuesFrom(Split(oldText), Split(newText), 1) # <<>>)]

\* withinFunction || withinClass || withinInterface
ContextName(options) ==
  IF options.withinFunction # "" THEN options.withinFunction
  ELSE IF options.withinClass # "" THEN options.withinClass
  ELSE options.withinInterface

ContextType(options) ==
  IF options.withinFunction # "" THEN "function"
  ELSE IF options.withinClass # "" THEN "class"
  ELSE IF options.withinInterface # "" THEN "interface"
  ELSE "any"

\* the loop of replaceInContext from line i on; lines[i] past the end is
\* undefined and lines[i].includes throws
RECURSIVE ReplaceInContextLines(_, _, _, _, _)
ReplaceInContextLines(ls, oldText, newText, i, endLine) ==
  IF i > endLine THEN [status |-> "ok", lines |-> ls]
  ELSE IF i >= Len(ls) THEN [status |-> "throw", lines |-> ls]
  ELSE IF Includes(Line(ls, i), oldText)
  THEN [status |-> "ok",
        lines |-> [ls EXCEPT ![i + 1] = ReplaceFirst(Line(ls, i), oldText, newText)]]
  ELSE ReplaceInContextLines(ls, oldText, newText, i + 1, endLine)

\* replaceInContext: throws unless exactly one declaration has the name
replaceInContext(ns, content, oldText, newText, contextName, contextType) ==
  IF Len(findNodeContext(ns, contextName, contextType)) # 1
  THEN [status |-> "throw", content |-> content]
  ELSE [status |->
          ReplaceInContextLines(
            Split(content), oldText, newText,
            findNodeContext(ns, contextName, contextType)[1].startLine,
            findNodeContext(ns, contextName, contextType)[1].endLine).status,
        content |->
          Join(ReplaceInContextLines(
                 Split(content), oldText, newText,
                 findNodeContext(ns, contextName, contextType)[1].startLine,
                 findNodeContext(ns, contextName, contextType)[1].endLine).lines)]

\* the content smartReplace and previewChange compute from the file's content
ReplacedContent(ns, content, oldText, newText, contextName, contextType) ==
  IF contextName # ""
  THEN replaceInContext(ns, content, oldText, newText, contextName, contextType)
  ELSE [status |-> "ok", content |-> ReplaceFirst(content, oldText, newText)]

ErrOccurrences == "Found several or no occurrences"
ErrValidation == "Edit validation failed"
ErrFileOperation == "File operation failed"

\* the result of smartReplace; linesChanged -1 and preview NoPreview are absent
NoPreview == [present |-> FALSE, diff |-> <<>>]

SmartReplaceResult(success, error, linesChanged) ==
  [success |-> success, error |-> error, linesChanged |-> linesChanged,
   preview |-> NoPreview]

\* the last step of smartReplace, newContent being the content computed
SmartReplaceWrite(w, newContent) ==
  IF newContent.status # "ok"
  THEN [result |-> SmartReplaceResult(FALSE, ErrFileOperation, -1), world |-> w]
  ELSE [result |-> SmartReplaceResult(TRUE, NoError,
                                      countChangedLines(w.file, newContent.content)),
        world |-> World(newContent.content, w.sourceText, w.lines,
                        Append(w.written, newContent.content))]

\* smartReplace: options.dryRun is not among the options it reads
smartReplace(w, ns, oldText, newText, options) ==
  IF /\ options.requireUnique # "false"
     /\ ~generateEditContext(w.lines, ns, oldText, ContextName(options)).isUnique
  THEN [result |-> SmartReplaceResult(FALSE, ErrOccurrences, -1), world |-> w]
  ELSE IF ~TSContextEditor_validateEdit(w.lines, ns, oldText, newText,
                                         ContextName(options)).safe
  THEN [result |-> SmartReplaceResult(FALSE, ErrValidation, -1), world |-> w]
  ELSE SmartReplaceWrite(w, ReplacedContent(ns, w.file, oldText, newText,
                                            ContextName(options),
                                            ContextType(options)))

\* generateDiff: the lines that differ, line by line
RECURSIVE generateDiff(_, _, _)
generateDiff(oldLines, newLines, i) ==
  IF i >= Max(Len(oldLines), Len(newLines)) THEN <<>>
  ELSE (IF i < Len(oldLines) /\ i < Len(newLines)
           /\ Line(oldLines, i) = Line(newLines, i)
        THEN <<>>
        ELSE (IF i < Len(oldLines)
              THEN <<[sign |-> "-", text |-> Line(oldLines, i)]>> ELSE <<>>)
             \o (IF i < Len(newLines)
                 THEN <<[sign |-> "+", text |-> Line(newLines, i)]>> ELSE <<>>))
       \o generateDiff(oldLines, newLines, i + 1)

\* The second half of previewChange, r being what smartReplace answered when
\* called with dryRun: true added to the options: the file is read again;
\* options has no contextName, so the preview is the first replacement in
\* the whole content
PreviewChanged(r, oldText, newText) ==
  IF ~r.result.success THEN r
  ELSE [result |->
          [r.result EXCEPT !.preview =
             [present |-> TRUE,
              diff |-> generateDiff(
                         Split(r.world.file),
                         Split(ReplaceFirst(r.world.file, oldText, newText)),
                         0)]],
        world |-> r.world]

previewChange(w, ns, oldText, newText, options) ==
  PreviewChanged(smartReplace(w, ns, oldText, newText, options),
                 oldText, newText)

\* ------------------------------------------------------------ ServerManager
\* src/src/qa/server-manager.ts.  The manager is used by one caller, which
\* awaits each call before it makes the next.  Time is counted in health
\* checks: startupChecks is the number of checks waitForServerReady makes
\* before Date.now() - startTime reaches config.startupTimeout.
MaxChecks == 2
MaxSpawns == 2
MaxServerCalls == 3

\* this.serverProcess = null
NoProcess == [spawned |-> FALSE, pid |-> 0]

\* A ChildProcess; pid 0 is a pid that is undefined, which is what spawn
\* returns when the command cannot be started (the 'error' event follows).
ChildProcess(pid) == [spawned |-> TRUE, pid |-> pid]

\* A ServerStatus; pid 0 and error "" are absent
ServerStatus(call, isRunning, pid, error) ==
  [call |-> call, isRunning |-> isRunning, pid |-> pid, error |-> error]

ErrStartTimeout == "Server failed to start within timeout period"
ErrSpawn == "spawn threw"

NoStatus == ServerStatus("none", FALSE, 0, "")

\* the manager after construction, with the processes of the machine (live),
\* the number of processes spawned, and the position of a pending startServer
ServerManager(startupChecks) ==
  [serverProcess |-> NoProcess, startupChecks |-> startupChecks,
   live |-> {}, spawns |-> 0, at |-> "idle", checks |-> 0, calls |-> 0,
   status |-> NoStatus]

\* the value of server where no ServerManager is looked at
NoServer == ServerManager(0)

\* stopServer: the process is killed (or the kill fails, which is logged) and
\* forgotten, provided there is one and it has a pid
stopServer(m, killed) ==
  IF m.serverProcess.spawned /\ m.serverProcess.pid # 0
  THEN [m EXCEPT !.serverProcess = NoProcess,
                 !.live = IF killed THEN @ \ {m.serverProcess.pid} ELSE @]
  ELSE m

\* a call returns status
Returns(m, status) ==
  [m EXCEPT !.status = status, !.at = "idle", !.checks = 0]

\* ------------------------------------------------------------- UsageTracker
\* src/src/usage-tracker.ts.  A task id is a text and a number: the ids the
\* caller gives have number 0, `general_${Date.now()}` is <<"general_", now>>.
MaxTrackerCalls == 4
MaxTasks == 3

TaskId(text, n) == <<text, n>>

\* currentTaskId = null
NullTaskId == TaskId("null", 0)

\* !taskId: null and the empty string
Falsy(taskId) == taskId = NullTaskId \/ taskId[1] = ""

\* a UsageData, without its timestamp
UsageData(prompt_tokens, completion_tokens, total_tokens, model) ==
  [prompt_tokens |-> prompt_tokens, completion_tokens |-> completion_tokens,
   total_tokens |-> total_tokens, model |-> model]

\* the new TaskUsage of startTask; ended is endTime being set
TaskUsage(taskId) ==
  [taskId |-> taskId, totalPromptTokens |-> 0, totalCompletionTokens |-> 0,
   totalTokens |-> 0, requestCount |-> 0, models |-> <<>>, ended |-> FALSE,
   requests |-> <<>>]

\* the ConversationUsage of the constructor and of reset
ConversationUsage ==
  [totalPromptTokens |-> 0, totalCompletionTokens |-> 0, totalTokens |-> 0,
   totalRequests |-> 0, modelsUsed |-> <<>>, tasks |-> <<>>]

\* what the caller has passed to recordUsage since construction or reset
NothingRecorded ==
  [prompt_tokens |-> 0, completion_tokens |-> 0, total_tokens |-> 0,
   requests |-> 0]

\* a UsageTracker after construction, with the clock (now) and its caller's
\* count of calls and record
UsageTracker ==
  [conversationUsage |-> ConversationUsage, currentTaskId |-> NullTaskId,
   now |-> 0, calls |-> 0, recorded |-> NothingRecorded]

\* the value of tracker where no UsageTracker is looked at
NoTracker == UsageTracker

\* models.includes(model) ? models : [...models, model]
WithModel(models, model) ==
  IF \E k \in 1..Len(models) : models[k] = model THEN models
  ELSE Append(models, model)

\* getCurrentTask: the 1-based index of the first task that has the current
\* id, 0 for undefined
getCurrentTask(t) ==
  IF Falsy(t.currentTaskId)
     \/ ~\E k \in 1..Len(t.conversationUsage.tasks) :
            t.conversationUsage.tasks[k].taskId = t.currentTaskId
  THEN 0
  ELSE CHOOSE k \in 1..Len(t.conversationUsage.tasks) :
         /\ t.conversationUsage.tasks[k].taskId = t.currentTaskId
         /\ \A j \in 1..(k - 1) :
              t.conversationUsage.tasks[j].taskId # t.currentTaskId

endCurrentTask(t) ==
  IF Falsy(t.currentTaskId) THEN t
  ELSE IF getCurrentTask(t) = 0 THEN [t EXCEPT !.currentTaskId = NullTaskId]
  ELSE [t EXCEPT !.conversationUsage.tasks[getCurrentTask(t)].ended = TRUE,
                 !.currentTaskId = NullTaskId]

startTask(t, taskId) ==
  [endCurrentTask(t) EXCEPT
     !.currentTaskId = taskId,
     !.conversationUsage.tasks = Append(@, TaskUsage(taskId))]

\* the first half of recordUsage: the conversation totals
RecordInConversation(t, usage) ==
  [t EXCEPT
     !.conversationUsage.totalPromptTokens = @ + usage.prompt_tokens,
     !.conversationUsage.totalCompletionTokens = @ + usage.completion_tokens,
     !.conversationUsage.totalTokens = @ + usage.total_tokens,
     !.conversationUsage.totalRequests = @ + 1,
     !.conversationUsage.modelsUsed = WithModel(@, usage.model)]

\* the branch of recordUsage that updates task k
RecordInTask(t, k, usage) ==
  [t EXCEPT
     !.conversationUsage.tasks[k].totalPromptTokens = @ + usage.prompt_tokens,
     !.conversationUsage.tasks[k].totalCompletionTokens = @ + usage.completion_tokens,
     !.conversationUsage.tasks[k].totalTokens = @ + usage.total_tokens,
     !.conversationUsage.tasks[k].requestCount = @ + 1,
     !.conversationUsage.tasks[k].requests = Append(@, usage),
     !.conversationUsage.tasks[k].models = WithModel(@, usage.model)]

\* the second half of recordUsage, c being the tracker after the first:
\* without a current task a general task is started and recordUsage is
\* called again
RECURSIVE recordUsage(_, _)
RecordInCurrentTask(c, usage) ==
  IF getCurrentTask(c) # 0 THEN RecordInTask(c, getCurrentTask(c), usage)
  ELSE recordUsage(startTask(c, TaskId("general_", c.now)), usage)

recordUsage(t, usage) == RecordInCurrentTask(RecordInConversation(t, usage), usage)

reset(t) ==
  [t EXCEPT !.conversationUsage = ConversationUsage,
            !.currentTaskId = NullTaskId]

\* ---------------------------------------------------------- initial state
\* a named declaration as createNodeContext describes it
Node(kind, scope, name, startLine, endLine) ==
  [kind |-> kind, name |-> name, scope |-> scope,
   startLine |-> startLine, endLine |-> endLine]

FunctionNode(name, startLine, endLine) ==
  Node("FunctionDeclaration", "function", name, startLine, endLine)

\* The engines constructed: the file's text, the declarations parsed from it,
\* and what the optional TypeScript program reports when there is one.
Engine(text, ns, prog, diag) ==
  [text |-> text, nodes |-> ns, program |-> prog, diagnosed |-> diag]

InitialEngines ==
  {Engine(<<"a", NL, "a", NL, "b">>, <<>>, FALSE, {}),
   Engine(<<"a", NL, "a", NL, "b">>, <<>>, TRUE, {<<"b">>}),
   Engine(<<"a", NL, "a", NL, "b">>, <<FunctionNode("f", 0, 1)>>, FALSE, {}),
   Engine(<<"a", NL, "a", NL, "b">>,
          <<FunctionNode("f", 0, 1), FunctionNode("f", 1, 2)>>, FALSE, {}),
   Engine(<<"a", NL, "/", "/", "a">>, <<FunctionNode("f", 0, 1)>>, FALSE, {}),
   Engine(<<"a">>, <<>>, FALSE, {})}

\* a path, path.extname(path) being its ext
Path(name, ext) == [name |-> name, ext |-> ext]

NoCall ==
  [call |-> "none", operations |-> <<>>, dryRun |-> FALSE,
   result |-> EngineResult(NoResult),
   fileBefore |-> <<>>, sourceBefore |-> <<>>, written |-> <<>>,
   repeated |-> FALSE, first |-> EngineResult(NoResult)]

Init ==
  /\ \E e \in InitialEngines :
       /\ file = e.text
       /\ sourceText = e.text
       /\ lines = Split(e.text)
       /\ nodes = e.nodes
       /\ program = e.program
       /\ diagnosed = e.diagnosed
  /\ pc = "idle"
  /\ calls = 0
  /\ last = NoCall
  /\ filePath = Path("file", ".ts")
  /\ server = NoServer
  /\ tracker = NoTracker

\* ----------------------------------------------------------------- actions
Current == World(file, sourceText, lines, <<>>)

\* the one operation of a call that takes one
TheOperation == last.operations[1]

\* A call settles: the engine and the file are as the call left them.  first
\* is the result of the call before it when the caller has just repeated
\* that call with the same arguments (repeated).
SettleAfter(call, operations, dryRun, status, result, w, repeated, first) ==
  /\ file' = w.file
  /\ sourceText' = w.sourceText
  /\ lines' = w.lines
  /\ pc' = CASE status = "ok" -> "returned"
             [] status = "throw" -> "thrown"
             [] status = "hang" -> "hung"
  /\ calls' = calls + 1
  /\ last' = [call |-> call, operations |-> operations, dryRun |-> dryRun,
              result |-> result, fileBefore |-> file,
              sourceBefore |-> sourceText, written |-> w.written,
              repeated |-> repeated, first |-> first]
  /\ UNCHANGED <<nodes, program, diagnosed>>
  /\ UNCHANGED others

Settle(call, operations, dryRun, status, result, w) ==
  SettleAfter(call, operations, dryRun, status, result, w,
              FALSE, EngineResult(NoResult))

CanCall == pc = "idle" /\ calls < MaxCalls

EditWithContext ==
  /\ CanCall
  /\ \E oldText \in OldStrings, newText \in NewStrings, context \in Contexts :
       \E r \in {editWithContext(Current, oldText, newText, context)} :
          Settle("editWithContext", <<Operation(oldText, newText, context)>>,
                 FALSE, "ok", EngineResult(r.result), r.world)

PreviewEdit ==
  /\ CanCall
  /\ \E oldText \in OldStrings, newText \in NewStrings, context \in Contexts :
       \E r \in {previewEdit(Current, oldText, newText, context)} :
          Settle("previewEdit", <<Operation(oldText, newText, context)>>,
                 FALSE, r.status, EngineResult(r.result), r.world)

\* previewEdit has returned and the caller calls it again with the same
\* arguments
PreviewEditAgain ==
  /\ pc = "returned"
  /\ last.call = "previewEdit"
  /\ ~last.repeated
  /\ calls < MaxCalls
  /\ \E r \in {previewEdit(Current, TheOperation.oldString,
                            TheOperation.newString, TheOperation.context)} :
       SettleAfter("previewEdit", last.operations, FALSE, r.status,
                   EngineResult(r.result), r.world, TRUE, last.result)

EnhancedSearchReplace ==
  /\ CanCall
  /\ \E oldString \in OldStrings, newString \in NewStrings,
        options \in Options, dryRun \in BOOLEAN :
       \E r \in {enhancedSearchReplace(Current, oldString, newString,
                                      options, dryRun)} :
          Settle("enhancedSearchReplace",
                 <<Operation(oldString, newString, options)>>,
                 dryRun, r.status, r.result, r.world)

EnhancedMultiEdit ==
  /\ CanCall
  /\ \E operations \in Batches :
       \E r \in {enhancedMultiEdit(Current, operations)} :
          Settle("enhancedMultiEdit", operations, FALSE,
                 r.status, r.result, r.world)

SmartEdit ==
  /\ CanCall
  /\ \E oldString \in OldStrings, newString \in NewStrings :
       \E r \in {smartEdit(Current, oldString, newString)} :
          Settle("smartEdit", <<Operation(oldString, newString, EmptyContext)>>,
                 FALSE, r.status, r.result, r.world)

ValidateEdit ==
  /\ CanCall
  /\ \E oldString \in OldStrings, newString \in NewStrings,
        context \in ValidateContexts :
       \E r \in {EnhancedEditor_validateEdit(Current, oldString, newString,
                                            context)} :
          Settle("validateEdit", <<Operation(oldString, newString, context)>>,
                 FALSE, r.status, EngineResult(r.result), r.world)

GenerateEditStrategies ==
  /\ CanCall
  /\ \E oldString \in OldStrings, newString \in NewStrings :
       \E r \in {generateEditStrategies(Current, oldString, newString)} :
          Settle("generateEditStrategies",
                 <<Operation(oldString, newString, EmptyContext)>>,
                 FALSE, r.status, r.result, r.world)

\* the caller takes the result (or catches the rejection) and goes on
Return ==
  /\ pc \in {"returned", "thrown"}
  /\ pc' = "idle"
  /\ last' = NoCall
  /\ UNCHANGED <<file, sourceText, lines, nodes, program, diagnosed, calls>>
  /\ UNCHANGED others

\* ---- the compatibility layer, called on files of any kind
LegacyPaths == {Path("file", ".ts"), Path("file", ".TSX"), Path("file", ".txt"),
                Path("file", ".md")}

MissingPath == Path("missing", ".txt")

LegacyContents == {<<"a", NL, "a", NL, "b">>, <<"a">>, <<"b", "a">>}

ReplaceAlls == {"true", "false", "undefined"}

\* Every call constructs its own editor, which reads the file, so the engine
\* of a call holds the content of the file.  The options of the layer carry
\* no scope filter: the declarations of the file are not looked at.
LegacyInit ==
  /\ filePath \in LegacyPaths
  /\ file \in LegacyContents
  /\ sourceText = file
  /\ lines = Split(file)
  /\ nodes = <<>>
  /\ program = FALSE
  /\ diagnosed = {}
  /\ pc = "idle"
  /\ calls = 0
  /\ last = NoCall
  /\ server = NoServer
  /\ tracker = NoTracker

ContextAwareSearchReplace ==
  /\ CanCall
  /\ \E file_path \in {filePath, MissingPath},
        old_string \in OldStrings, new_string \in NewStrings,
        replace_all \in ReplaceAlls :
       \E r \in {contextAwareSearchReplace(
                   Current, file_path, file_path = filePath,
                   LegacyParams(file_path, old_string, new_string, replace_all))} :
          Settle("contextAwareSearchReplace",
                 <<LegacyParams(file_path, old_string, new_string, replace_all)>>,
                 FALSE, r.status, r.result, r.world)

LegacyNext ==
  \/ ContextAwareSearchReplace
  \/ Return

LegacySpec == LegacyInit /\ [][LegacyNext]_vars

\* ---- the refactoring operations of an EnhancedEditor
ClassNode(name, startLine, endLine) ==
  Node("ClassDeclaration", "class", name, startLine, endLine)

RefactorEngines ==
  {Engine(<<"a", NL, "a", NL, "b">>, <<>>, FALSE, {}),
   Engine(<<"a", NL, "a", NL, "b">>, <<FunctionNode("f", 0, 1)>>, FALSE, {}),
   Engine(<<"a", NL, "a", NL, "b">>,
          <<FunctionNode("f", 0, 1), FunctionNode("f", 1, 2)>>, FALSE, {}),
   Engine(<<"a", NL, "a", NL, "b">>,
          <<ClassNode("c", 0, 1), FunctionNode("f", 1, 2)>>, FALSE, {})}

RefactorNames == {"f", "g", "c"}

RefactorOperations ==
  {Operation(<<"a">>, <<"b">>, NoFilter),
   Operation(<<"a">>, <<"b">>, Context("", "", "false")),
   Operation(<<"b">>, <<"a">>, Context("f", "", "undefined"))}

RefactorBatches == UNION {[1..n -> RefactorOperations] : n \in 1..MaxOps}

RefactorInit ==
  /\ \E e \in RefactorEngines :
       /\ file = e.text
       /\ sourceText = e.text
       /\ lines = Split(e.text)
       /\ nodes = e.nodes
       /\ program = e.program
       /\ diagnosed = e.diagnosed
  /\ pc = "idle"
  /\ calls = 0
  /\ last = NoCall
  /\ filePath = Path("file", ".ts")
  /\ server = NoServer
  /\ tracker = NoTracker

\* the operations kept with the call are the contextual ones
RefactorFunction ==
  /\ CanCall
  /\ \E functionName \in RefactorNames, operations \in RefactorBatches :
       \E r \in {refactorFunction(Current, functionName, operations)} :
          Settle("refactorFunction",
                 [k \in 1..Len(operations) |->
                    InFunction(operations[k], functionName)],
                 FALSE, r.status, r.result, r.world)

RefactorClass ==
  /\ CanCall
  /\ \E className \in RefactorNames, operations \in RefactorBatches :
       \E r \in {refactorClass(Current, className, operations)} :
          Settle("refactorClass",
                 [k \in 1..Len(operations) |-> InClass(operations[k], className)],
                 FALSE, r.status, r.result, r.world)

RefactorNext ==
  \/ RefactorFunction
  \/ RefactorClass
  \/ Return

RefactorSpec == RefactorInit /\ [][RefactorNext]_vars

\* ---- the EnhancedTSEditor, constructed on the file, and its caller
TSEditorInit ==
  /\ \E e \in InitialEngines :
       /\ file = e.text
       /\ sourceText = e.text
       /\ lines = Split(e.text)
       /\ nodes = e.nodes
  /\ program = FALSE
  /\ diagnosed = {}
  /\ pc = "idle"
  /\ calls = 0
  /\ last = NoCall
  /\ filePath = Path("file", ".ts")
  /\ server = NoServer
  /\ tracker = NoTracker

SmartReplace ==
  /\ CanCall
  /\ \E oldText \in OldStrings, newText \in NewStrings, options \in Options :
       \E r \in {smartReplace(Current, nodes, oldText, newText, options)} :
          Settle("smartReplace", <<Operation(oldText, newText, options)>>,
                 FALSE, "ok", r.result, r.world)

PreviewChange ==
  /\ CanCall
  /\ \E oldText \in OldStrings, newText \in NewStrings, options \in Options :
       \E r \in {previewChange(Current, nodes, oldText, newText, options)} :
          Settle("previewChange", <<Operation(oldText, newText, options)>>,
                 TRUE, "ok", r.result, r.world)

TSEditorNext ==
  \/ SmartReplace
  \/ PreviewChange
  \/ Return

TSEditorSpec == TSEditorInit /\ [][TSEditorNext]_vars

\* ---- the UsageTracker and its caller
TaskIds == {TaskId("t1", 0), TaskId("t2", 0), TaskId("", 0)}

Usages == {UsageData(1, 1, 2, "m1"), UsageData(2, 0, 2, "m2")}

TrackerInit ==
  /\ tracker = UsageTracker
  /\ server = NoServer
  /\ file = <<>>
  /\ sourceText = <<>>
  /\ lines = <<<<>>>>
  /\ nodes = <<>>
  /\ program = FALSE
  /\ diagnosed = {}
  /\ pc = "idle"
  /\ calls = 0
  /\ last = NoCall
  /\ filePath = Path("file", ".ts")

CanCallTracker == tracker.calls < MaxTrackerCalls

\* a call is made, at a time that is now or later
Called(t, later) == [t EXCEPT !.calls = @ + 1, !.now = @ + later]

StartTask ==
  /\ CanCallTracker
  /\ Len(tracker.conversationUsage.tasks) < MaxTasks
  /\ \E taskId \in TaskIds, later \in {0, 1} :
       tracker' = startTask(Called(tracker, later), taskId)
  /\ UNCHANGED <<editor, server>>

EndCurrentTask ==
  /\ CanCallTracker
  /\ \E later \in {0, 1} :
       tracker' = endCurrentTask(Called(tracker, later))
  /\ UNCHANGED <<editor, server>>

RecordUsage ==
  /\ CanCallTracker
  /\ Len(tracker.conversationUsage.tasks) < MaxTasks
  /\ \E usage \in Usages, later \in {0, 1} :
       tracker' =
         [recordUsage(Called(tracker, later), usage) EXCEPT
            !.recorded =
              [prompt_tokens |-> @.prompt_tokens + usage.prompt_tokens,
               completion_tokens |-> @.completion_tokens + usage.completion_tokens,
               total_tokens |-> @.total_tokens + usage.total_tokens,
               requests |-> @.requests + 1]]
  /\ UNCHANGED <<editor, server>>

Reset ==
  /\ CanCallTracker
  /\ \E later \in {0, 1} :
       tracker' = [reset(Called(tracker, later)) EXCEPT
                     !.recorded = NothingRecorded]
  /\ UNCHANGED <<editor, server>>

TrackerNext ==
  \/ StartTask
  \/ EndCurrentTask
  \/ RecordUsage
  \/ Reset

TrackerSpec == TrackerInit /\ [][TrackerNext]_vars

\* ---- the ServerManager and its caller
ServerInit ==
  /\ server \in {ServerManager(n) : n \in 0..MaxChecks}
  /\ file = <<>>
  /\ sourceText = <<>>
  /\ lines = <<<<>>>>
  /\ nodes = <<>>
  /\ program = FALSE
  /\ diagnosed = {}
  /\ pc = "idle"
  /\ calls = 0
  /\ last = NoCall
  /\ filePath = Path("file", ".ts")
  /\ tracker = NoTracker

CanCallServer == server.at = "idle" /\ server.calls < MaxServerCalls

\* startServer while the manager holds a process: it is reported as running
StartServerHeld ==
  /\ CanCallServer
  /\ server.serverProcess.spawned
  /\ server' = [Returns(server, ServerStatus("startServer", TRUE,
                                              server.serverProcess.pid, ""))
                  EXCEPT !.calls = @ + 1]
  /\ UNCHANGED <<editor, tracker>>

\* startServer up to its first await: spawn gives a process with a pid, a
\* process without one, or throws
StartServerSpawn ==
  /\ CanCallServer
  /\ ~server.serverProcess.spawned
  /\ server.spawns < MaxSpawns
  /\ \E outcome \in {"pid", "nopid", "throw"} :
       server' =
         CASE outcome = "pid" ->
                [server EXCEPT !.serverProcess = ChildProcess(server.spawns + 1),
                               !.live = @ \cup {server.spawns + 1},
                               !.spawns = @ + 1, !.calls = @ + 1,
                               !.at = "waiting", !.checks = 0]
           [] outcome = "nopid" ->
                [server EXCEPT !.serverProcess = ChildProcess(0),
                               !.spawns = @ + 1, !.calls = @ + 1,
                               !.at = "waiting", !.checks = 0]
           [] outcome = "throw" ->
                [Returns(server, ServerStatus("startServer", FALSE, 0, ErrSpawn))
                   EXCEPT !.spawns = @ + 1, !.calls = @ + 1]
  /\ UNCHANGED <<editor, tracker>>

\* waitForServerReady: one health check, which the server answers or not
HealthCheck ==
  /\ server.at = "waiting"
  /\ server.checks < server.startupChecks
  /\ \E healthy \in BOOLEAN :
       server' =
         IF healthy
         THEN Returns(server, ServerStatus("startServer", TRUE,
                                           server.serverProcess.pid, ""))
         ELSE [server EXCEPT !.checks = @ + 1]
  /\ UNCHANGED <<editor, tracker>>

\* the timeout has passed: startServer stops the server and reports
StartTimeout ==
  /\ server.at = "waiting"
  /\ server.checks = server.startupChecks
  /\ \E killed \in BOOLEAN :
       server' = Returns(stopServer(server, killed),
                         ServerStatus("startServer", FALSE, 0, ErrStartTimeout))
  /\ UNCHANGED <<editor, tracker>>

StopServer ==
  /\ CanCallServer
  /\ \E killed \in BOOLEAN :
       server' = [Returns(stopServer(server, killed),
                          ServerStatus("stopServer", FALSE, 0, ""))
                    EXCEPT !.calls = @ + 1]
  /\ UNCHANGED <<editor, tracker>>

GetServerStatus ==
  /\ CanCallServer
  /\ \E isHealthy \in BOOLEAN :
       server' =
         [Returns(server,
                  IF ~server.serverProcess.spawned
                  THEN ServerStatus("getServerStatus", FALSE, 0, "")
                  ELSE ServerStatus("getServerStatus", isHealthy,
                                    server.serverProcess.pid, ""))
            EXCEPT !.calls = @ + 1]
  /\ UNCHANGED <<editor, tracker>>

IsServerRunning ==
  /\ CanCallServer
  /\ \E isHealthy \in BOOLEAN :
       server' =
         [Returns(server,
                  ServerStatus("isServerRunning",
                               server.serverProcess.spawned /\ isHealthy, 0, ""))
            EXCEPT !.calls = @ + 1]
  /\ UNCHANGED <<editor, tracker>>

ServerNext ==
  \/ StartServerHeld
  \/ StartServerSpawn
  \/ HealthCheck
  \/ StartTimeout
  \/ StopServer
  \/ GetServerStatus
  \/ IsServerRunning

ServerSpec == ServerInit /\ [][ServerNext]_vars

Next ==
  \/ EditWithContext
  \/ PreviewEdit
  \/ EnhancedSearchReplace
  \/ EnhancedMultiEdit
  \/ PreviewEditAgain
  \/ SmartEdit
  \/ ValidateEdit
  \/ GenerateEditStrategies
  \/ Return

Spec == Init /\ [][Next]_vars

\* ================================================================ claims
\* what the claims read of the settled call
Returned(call) == pc = "returned" /\ last.call = call

SingleCalls == {"editWithContext", "previewEdit", "enhancedSearchReplace"}

\* the calls that answer with an EditResult or an EnhancedEditResult
ResultCalls ==
  SingleCalls \cup {"enhancedMultiEdit", "smartEdit", "validateEdit"}

\* the engine as it was when the call started
Before ==
  World(last.fileBefore, last.sourceBefore, Split(last.sourceBefore), <<>>)

EngineUnchanged == sourceText = last.sourceBefore /\ lines = Split(last.sourceBefore)

\* the occurrence scan of an operation on the engine's content before the call
ScanBefore(op) ==
  analyzeEditContext(Before.lines, nodes, op.oldString, op.context)

\* ---- C1
\* C1: when enhancedMultiEdit returns a failure, the content of the file is
\* byte-identical to its content before the call.
C1_FailedBatchRestoresFile ==
  (Returned("enhancedMultiEdit") /\ ~last.result.success)
    => file = last.fileBefore

\* a batch whose first operation was written and whose second one failed
C1_Witness ==
  /\ Returned("enhancedMultiEdit")
  /\ ~last.result.success
  /\ last.result.failedOperation = 2
  /\ Len(last.written) = 2
  /\ last.written[1] # last.fileBefore
  /\ sourceText # last.sourceBefore
  /\ file = last.fileBefore

\* ---- C2
\* C2: after enhancedMultiEdit has failed and rolled back, the engine's
\* in-memory content equals the content of the file.
C2_EngineEqualsFileAfterRollback ==
  (Returned("enhancedMultiEdit") /\ ~last.result.success
     /\ last.sourceBefore = last.fileBefore)
    => (sourceText = file /\ lines = Split(file))

\* ---- C3
\* an operation the engine, run on the content before the batch, does not
\* accept: an input error, an unsafe or ambiguous edit, or no occurrence
InvalidBefore(op) ==
  \/ ~validateInputs(op.oldString, op.newString).valid
  \/ ScanBefore(op).status # "ok"
  \/ Len(ScanBefore(op).occurrences) = 0
  \/ ~validateEdit(Before.lines, op.oldString, op.newString,
                   [ScanBefore(op) EXCEPT !.context = DefaultUnique(op.context)]).isSafe

\* C3: a call of enhancedMultiEdit with an operation that is invalid against
\* the content before the batch never writes the file; in particular the file
\* never holds, at any point of the call, a content other than the one it had
\* before the batch.
C3_NoWriteBeforeAllValidated ==
  (pc # "idle" /\ last.call = "enhancedMultiEdit"
     /\ \E k \in 1..Len(last.operations) : InvalidBefore(last.operations[k]))
    => \A i \in 1..Len(last.written) : last.written[i] = last.fileBefore

\* ---- C4
\* C4: enhancedMultiEdit judges every operation on the content before the
\* batch: it succeeds exactly when every operation is valid against that
\* content.
C4_BatchJudgedOnPreBatchContent ==
  Returned("enhancedMultiEdit")
    => (last.result.success
          <=> \A k \in 1..Len(last.operations) :
                ~InvalidBefore(last.operations[k]))

\* ---- C5
\* text with its first occurrence of oldString replaced by newString as it is
ReplacedLiterally(text, oldString, newString) ==
  LET c == IndexOf(text, oldString, 0)
  IN SubSeq(text, 1, c) \o newString
     \o SubSeq(text, c + Len(oldString) + 1, Len(text))

\* C5: after a successful unscoped editWithContext whose oldString has exactly
\* one occurrence, the file is the previous content with that occurrence
\* replaced by newString.
C5_UniqueEditRoundTrip ==
  (Returned("editWithContext") /\ last.result.success
     /\ ~HasScopeFilter(TheOperation.context)
     /\ last.result.validation.occurrences = 1
     /\ last.sourceBefore = last.fileBefore)
    => file = ReplacedLiterally(last.fileBefore, TheOperation.oldString,
                                TheOperation.newString)

\* ---- C6
\* the call is an edit (not a dry run) of an oldString with several
\* occurrences in the searched region, requireUnique not being false
AmbiguousEdit ==
  /\ pc # "idle"
  /\ \/ last.call = "editWithContext"
     \/ last.call = "enhancedSearchReplace"
  /\ TheOperation.context.requireUnique # "false"
  /\ ScanBefore(TheOperation).status = "ok"
  /\ Len(ScanBefore(TheOperation).occurrences) > 1

\* the answer C6 asks for: a failure that changes nothing and carries the
\* occurrence count and suggestions for the occurrences
AmbiguousEditRefused ==
  /\ pc = "returned"
  /\ ~last.result.success
  /\ file = last.fileBefore
  /\ EngineUnchanged
  /\ last.result.hasValidation
  /\ last.result.validation.occurrences = Len(ScanBefore(TheOperation).occurrences)
  /\ Len(last.result.validation.suggestions) >= last.result.validation.occurrences

CountUpTo(text, ch, k) == Cardinality({i \in 1..k : text[i] = ch})

\* the running balance of open and close goes negative somewhere, or does
\* not end at zero
UnbalancedPair(text, open, close) ==
  \/ \E k \in 1..Len(text) : CountUpTo(text, close, k) > CountUpTo(text, open, k)
  \/ CountUpTo(text, open, Len(text)) # CountUpTo(text, close, Len(text))

Unbalanced(text) == UnbalancedPair(text, "{", "}") \/ UnbalancedPair(text, "(", ")")

\* C7: for a newString with unbalanced braces or parentheses every validation
\* has syntaxValid and isSafe false, and the edit does not write the file.
C7_UnbalancedNeverApplied ==
  (pc = "returned" /\ last.call \in SingleCalls
     /\ Unbalanced(TheOperation.newString))
    => /\ last.result.hasValidation
          => (~last.result.validation.syntaxValid /\ ~last.result.validation.isSafe)
       /\ last.written = <<>>
       /\ file = last.fileBefore

\* an edit that only the syntax check stops: the braces close before they
\* open, the text is unique and requireUnique is false
C7_Witness ==
  /\ Returned("editWithContext")
  /\ TheOperation.newString = <<"}", "{">>
  /\ TheOperation.context.requireUnique = "false"
  /\ last.result.hasValidation
  /\ last.result.validation.isUnique
  /\ ~last.result.validation.syntaxValid
  /\ last.written = <<>>

\* ---- C8
\* C8: in every validation returned, isSafe = syntaxValid and no indentation
\* issue and (isUnique or requireUnique is false), and isUnique = (occurrences = 1).
C8_IsSafeDerived ==
  (pc = "returned" /\ last.call \in SingleCalls /\ last.result.hasValidation)
    => LET v == last.result.validation
       IN /\ v.isSafe <=> (/\ v.syntaxValid
                           /\ v.indentationIssues = <<>>
                           /\ (v.isUnique \/ TheOperation.context.requireUnique = "false"))
          /\ v.isUnique <=> (v.occurrences = 1)

\* a unique, syntactically valid edit that only its indentation makes unsafe
C8_Witness ==
  /\ pc = "returned"
  /\ last.call \in SingleCalls
  /\ last.result.hasValidation
  /\ last.result.validation.isUnique
  /\ last.result.validation.syntaxValid
  /\ last.result.validation.indentationIssues # <<>>
  /\ ~last.result.validation.isSafe

\* ---- C9
InputError(op) == op.oldString = <<>> \/ op.oldString = op.newString

\* C9: every entry point rejects an empty oldString and oldString = newString
\* as an input error and leaves the file unchanged.
C9_InputErrorsRejectedEverywhere ==
  (pc # "idle" /\ last.call \in ResultCalls
     /\ \E k \in 1..Len(last.operations) : InputError(last.operations[k]))
    => /\ pc = "returned"
       /\ ~last.result.success
       /\ last.result.error \in {ErrEmpty, ErrIdentical}
       /\ file = last.fileBefore

\* ---- C10
\* the scope filter of the operation matches no declaration of the file
ScopeNotFound(op) ==
  HasScopeFilter(op.context) /\ Len(findTargetNodes(nodes, op.context)) = 0

\* C10: an edit or preview whose scope filter matches no scope fails and
\* modifies nothing: it does not fall back to the whole file.
C10_UnknownScopeFails ==
  (pc = "returned" /\ last.call \in SingleCalls /\ ScopeNotFound(TheOperation))
    => /\ ~last.result.success
       /\ last.written = <<>>
       /\ file = last.fileBefore

\* ---- C11
\* the scope filter of the operation matches several declarations of the file
ScopeAmbiguous(op) ==
  HasScopeFilter(op.context) /\ Len(findTargetNodes(nodes, op.context)) > 1

\* the call is an edit, not a preview
IsEdit ==
  \/ last.call = "editWithContext"
  \/ last.call = "enhancedSearchReplace" /\ ~last.dryRun

\* C11: when the scope filter matches more than one scope, the edit is
\* refused (the context name is ambiguous, whatever the number of occurrences
\* and whatever requireUnique says) and is applied to none of the matching
\* scopes: nothing is written.  The EditValidation of the code has no field
\* for an ambiguous context name; the refusal is what can be observed.
C11_AmbiguousScopeRefused ==
  (pc = "returned" /\ IsEdit /\ ScopeAmbiguous(TheOperation))
    => /\ ~last.result.success
       /\ last.written = <<>>
       /\ file = last.fileBefore

\* ---- C12
\* the call is one of the four that only look
IsPreview ==
  \/ last.call \in {"previewEdit", "validateEdit", "generateEditStrategies"}
  \/ last.call = "enhancedSearchReplace" /\ last.dryRun

\* C12: previewEdit, EnhancedEditor.validateEdit, generateEditStrategies and
\* enhancedSearchReplace with dryRun never write the file and leave sourceText
\* and lines as they were, whatever the input and however the call ends.
C12_PreviewsChangeNothing ==
  (pc # "idle" /\ IsPreview)
    => /\ last.written = <<>>
       /\ file = last.fileBefore
       /\ EngineUnchanged

\* a dry run of an edit that is unique and safe, so that the same call
\* without dryRun would have written the file; its preview shows the change
C12_Witness ==
  /\ Returned("enhancedSearchReplace")
  /\ last.dryRun
  /\ last.result.validation.isUnique
  /\ last.result.validation.isSafe
  /\ \E k \in 1..Len(last.result.preview) : last.result.preview[k].prefix = "+"
  /\ file = last.fileBefore

\* ---- C13
\* C13: previewEdit called again with the same arguments, nothing having been
\* applied in between, returns, and returns the result of the first call:
\* the same preview, validation and linesChanged.
C13_PreviewIdempotent ==
  (pc # "idle" /\ last.repeated)
    => /\ pc = "returned"
       /\ last.result = last.first

\* the second of two previews of an ambiguous edit, whose result has a diff
\* showing a change and suggestions
C13_Witness ==
  /\ Returned("previewEdit")
  /\ last.repeated
  /\ last.result.linesChanged = 2
  /\ last.result.validation.suggestions # <<>>
  /\ \E k \in 1..Len(last.result.preview) : last.result.preview[k].prefix = "+"

\* ---- C14
\* the positions of text at which s occurs
Positions(text, s) == {i \in 0..(Len(text) - Len(s)) : StartsAt(text, s, i)}

\* the calls that return the validation of one operation
ValidatingCalls == SingleCalls \cup {"validateEdit"}

\* C14: when the search text occurs exactly once in the whole content and
\* there is no scope filter, the validation has isUnique true and occurrences
\* 1, and carries no suggestion.
C14_UniqueGlobally ==
  (/\ pc = "returned"
   /\ last.call \in ValidatingCalls
   /\ last.result.hasValidation
   /\ ~HasScopeFilter(TheOperation.context)
   /\ Len(TheOperation.oldString) > 0
   /\ Cardinality(Positions(last.sourceBefore, TheOperation.oldString)) = 1)
    => /\ last.result.validation.isUnique
       /\ last.result.validation.occurrences = 1
       /\ last.result.validation.suggestions = <<>>

\* ---- C15
\* the declarations the scope filter of the operation resolves to
Resolved(op) ==
  IF HasScopeFilter(op.context) THEN findTargetNodes(nodes, op.context)
  ELSE <<>>

Covers(node, lineIndex) ==
  node.startLine <= lineIndex /\ lineIndex <= node.endLine

\* C15: when the scope filter resolves to at least one scope, every
\* occurrence the finder returns is tagged with a resolved scope whose span
\* holds its line, no position is returned twice (also not when several
\* resolved scopes cover it), and the validation counts these occurrences.
C15_ScopeContainment ==
  (/\ pc = "returned"
   /\ last.call \in ValidatingCalls
   /\ Len(Resolved(TheOperation)) > 0
   /\ ScanBefore(TheOperation).status = "ok")
    => LET occ == ScanBefore(TheOperation).occurrences
           scopes == Resolved(TheOperation)
       IN /\ \A k \in 1..Len(occ) :
               /\ occ[k].hasNode
               /\ \E j \in 1..Len(scopes) : scopes[j] = occ[k].nodeContext
               /\ Covers(occ[k].nodeContext, occ[k].line)
          /\ \A k, l \in 1..Len(occ) :
               (occ[k].line = occ[l].line /\ occ[k].column = occ[l].column)
                 => k = l
          /\ last.result.hasValidation
               => last.result.validation.occurrences = Len(occ)

\* two resolved scopes cover the line of an occurrence, and the validation
\* counts two occurrences, one of them on that line
C15_Witness ==
  /\ pc = "returned"
  /\ last.call \in ValidatingCalls
  /\ Len(Resolved(TheOperation)) = 2
  /\ last.result.hasValidation
  /\ last.result.validation.occurrences = 2
  /\ \E k \in 1..Len(ScanBefore(TheOperation).occurrences) :
       /\ Covers(Resolved(TheOperation)[1], ScanBefore(TheOperation).occurrences[k].line)
       /\ Covers(Resolved(TheOperation)[2], ScanBefore(TheOperation).occurrences[k].line)

\* ---- C16
\* the suggestions of the validation the call returned
ReturnedSuggestions == last.result.validation.suggestions

\* C16: the suggestions of every validation are in descending order of
\* confidence, and suggestions of equal confidence in ascending order of line.
C16_SuggestionsRanked ==
  (pc = "returned" /\ last.call \in ValidatingCalls /\ last.result.hasValidation)
    => \A i, j \in 1..Len(ReturnedSuggestions) :
         i < j =>
           \/ ReturnedSuggestions[i].confidence > ReturnedSuggestions[j].confidence
           \/ /\ ReturnedSuggestions[i].confidence = ReturnedSuggestions[j].confidence
              /\ ReturnedSuggestions[i].line <= ReturnedSuggestions[j].line

\* two occurrences, each with its three suggestions: the two of 0.9 come
\* first, then the two of 0.8, then the two of 0.7, each pair by line
C16_Witness ==
  /\ pc = "returned"
  /\ last.call \in ValidatingCalls
  /\ last.result.hasValidation
  /\ Len(ReturnedSuggestions) = 6
  /\ [k \in 1..6 |-> ReturnedSuggestions[k].strategy]
       = <<"surrounding_context", "surrounding_context",
           "comment_context", "comment_context",
           "scope_context", "scope_context">>
  /\ [k \in 1..6 |-> ReturnedSuggestions[k].line] = <<1, 2, 1, 2, 1, 2>>

\* ---- C17
\* the occurrence finder, run without scope on the engine's present lines,
\* finds text exactly once
FoundOnce(text) ==
  /\ findAllOccurrences(lines, text, <<>>).status = "ok"
  /\ Len(findAllOccurrences(lines, text, <<>>).occurrences) = 1

\* C17: the oldString of every surrounding-context or comment-context
\* suggestion of a returned validation is found exactly once by the
\* occurrence finder in the present content, so that the suggestion can be
\* applied as it is with requireUnique.
C17_SuggestionsAppliable ==
  (/\ pc = "returned"
   /\ last.call \in ValidatingCalls
   /\ last.result.hasValidation
   /\ EngineUnchanged)
    => \A k \in 1..Len(ReturnedSuggestions) :
         ReturnedSuggestions[k].strategy \in {"surrounding_context", "comment_context"}
           => FoundOnce(ReturnedSuggestions[k].oldString)

\* ---- C18
\* the number of occurrences of the scan occ that lie on the lines of node
OccurrencesInside(occ, node) ==
  Cardinality({k \in 1..Len(occ) : Covers(node, occ[k].line)})

\* the functions of the file that hold two or more occurrences of the search
\* text of an unscoped operation
FunctionsWithSeveral(op) ==
  {j \in 1..Len(nodes) :
     /\ nodes[j].scope = "function"
     /\ OccurrencesInside(ScanBefore(op).occurrences, nodes[j]) >= 2}

\* C18: for an unscoped search whose text occurs two or more times inside one
\* named function, the validation has occurrences >= 2 and isUnique false,
\* its suggestions include a scope-context suggestion naming that function,
\* and its first suggestion is a surrounding-context one.
C18_ScopeSuggestedForGlobalSearch ==
  (/\ pc = "returned"
   /\ last.call \in ValidatingCalls
   /\ last.result.hasValidation
   /\ ~HasScopeFilter(TheOperation.context)
   /\ ScanBefore(TheOperation).status = "ok")
    => \A j \in FunctionsWithSeveral(TheOperation) :
         /\ last.result.validation.occurrences >= 2
         /\ ~last.result.validation.isUnique
         /\ \E k \in 1..Len(ReturnedSuggestions) :
              /\ ReturnedSuggestions[k].strategy = "scope_context"
              /\ ReturnedSuggestions[k].scopeName = nodes[j].name
         /\ Len(ReturnedSuggestions) > 0
         /\ ReturnedSuggestions[1].strategy = "surrounding_context"

\* ---- C19
\* the number of line positions at which two contents differ, a position
\* past the end of one of them differing unless the other's line is empty
DifferingLines(before, after) ==
  Cardinality({i \in 1..Max(Len(Split(before)), Len(Split(after))) :
                 (IF i <= Len(Split(before)) THEN Split(before)[i] ELSE <<>>)
                   # (IF i <= Len(Split(after)) THEN Split(after)[i] ELSE <<>>)})

\* C19: a successful enhancedMultiEdit reports editsApplied = the number of
\* operations and linesChanged = the number of line positions at which the
\* content before and the content after the batch differ.
C19_BatchTotals ==
  (Returned("enhancedMultiEdit") /\ last.result.success)
    => /\ last.result.editsApplied = Len(last.operations)
       /\ last.result.linesChanged = DifferingLines(last.sourceBefore, sourceText)

\* ---- C20
\* the scan of the whole content for the text smartEdit was given
SmartScan == ScanBefore(Operation(TheOperation.oldString,
                                  TheOperation.newString, EmptyContext))

\* the validation of that text, which is what the first step of smartEdit
\* computes
SmartValidation ==
  validateEdit(Before.lines, TheOperation.oldString, TheOperation.newString,
               SmartScan)

\* C20: smartEdit returns success only when it has applied a replacement
\* (editsApplied = 1 and the file was written); when the text is absent,
\* unsafe or ambiguous and not resolved it returns a failure and the file is
\* as before; the failure for an ambiguous text carries the suggestions
\* computed for that text.
C20_SmartEditOutcome ==
  (Returned("smartEdit") /\ SmartScan.status = "ok")
    => /\ last.result.success
            => (last.result.editsApplied = 1 /\ last.written # <<>>)
       /\ ~last.result.success => file = last.fileBefore
       /\ (~last.result.success /\ Len(SmartScan.occurrences) >= 2)
            => last.result.suggestions = SmartValidation.suggestions

\* ---- C21
\* the parameters of the call of the compatibility layer
TheParams == last.operations[1]

\* C21: contextAwareSearchReplace on an existing file that is not
\* JavaScript/TypeScript returns a result: with one occurrence, or with
\* replace_all and at least one, the literal replacement is written; with no
\* occurrence, or several without replace_all, it returns a failure and the
\* file is unchanged.
C21_FallbackForOtherFiles ==
  (/\ pc # "idle"
   /\ last.call = "contextAwareSearchReplace"
   /\ TheParams.file_path = filePath
   /\ ~isJavaScriptOrTypeScript(filePath)
   /\ Len(TheParams.old_string) > 0)
    => /\ pc = "returned"
       /\ IF \/ Cardinality(Positions(last.fileBefore, TheParams.old_string)) = 1
             \/ /\ Cardinality(Positions(last.fileBefore, TheParams.old_string)) > 1
                /\ TheParams.replace_all = "true"
          THEN /\ last.result.success
               /\ IndexOf(file, TheParams.new_string, 0) # -1
               /\ file # last.fileBefore \/ TheParams.old_string = TheParams.new_string
          ELSE /\ ~last.result.success
               /\ file = last.fileBefore

\* ---- C22
\* startServer has just returned because the health check did not succeed
\* within the startup timeout
StartTimedOut ==
  /\ server.at = "idle"
  /\ server.status.call = "startServer"
  /\ server.status.error = ErrStartTimeout

\* C22: when the health check never succeeds within the startup timeout,
\* startServer returns isRunning false with the error, and the manager holds
\* no server process afterwards, so that a later status call finds no
\* process and a later startServer spawns one.
C22_FailedStartForgetsProcess ==
  StartTimedOut
    => /\ ~server.status.isRunning
       /\ ~server.serverProcess.spawned

\* ---- C23
\* the declarations of a tree built from the content the engine holds lie
\* inside that content
SpansInside(ns, ls) ==
  \A k \in 1..Len(ns) :
    /\ 0 <= ns[k].startLine
    /\ ns[k].startLine <= ns[k].endLine
    /\ ns[k].endLine < Len(ls)

\* C23: after a successful apply the scope spans the next operation uses
\* are those of the new content: every span lies inside the lines the
\* engine holds, so that a scoped call searches lines of the named scope.
C23_SpansFollowContent ==
  pc \in {"idle", "returned"} => SpansInside(nodes, lines)

\* ---- C24
TerminatingCalls ==
  {"previewEdit", "editWithContext", "enhancedSearchReplace",
   "enhancedMultiEdit"}

\* C24: every call of previewEdit, editWithContext, enhancedSearchReplace
\* (dry run included) and enhancedMultiEdit terminates for every input, an
\* empty oldString included: no such call is left in the occurrence scan
\* for ever.
C24_CallsTerminate ==
  pc = "hung" => last.call \notin TerminatingCalls

\* ---- C25
\* what previewEdit answers for the operation on the engine before the call
PreviewBefore ==
  previewEdit(Before, TheOperation.oldString, TheOperation.newString,
              TheOperation.context)

\* the lines of the preview: those it marks have the new text, the others
\* are the lines before the call
PreviewedLines ==
  PreviewLines(Before.lines, TheOperation.oldString, TheOperation.newString,
               ScanBefore(TheOperation).occurrences, 1)

\* C25: preview and apply agree: when editWithContext succeeds, the lines
\* previewEdit marks as changed, with their new text, are the lines the
\* apply changes, and the preview's linesChanged is the number of lines the
\* apply changes.
C25_PreviewAgreesWithApply ==
  (Returned("editWithContext") /\ last.result.success)
    => /\ PreviewBefore.status = "ok"
       /\ Join(PreviewedLines) = sourceText
       /\ PreviewBefore.result.linesChanged
            = DifferingLines(last.sourceBefore, sourceText)

\* ---- C26
\* C26: a surrounding-context suggestion is returned only when its widened
\* string holds the search text exactly once, so that its newString differs
\* from its oldString at the reported occurrence alone.
C26_WidenedStringHoldsOneMatch ==
  (pc = "returned" /\ last.call \in ValidatingCalls /\ last.result.hasValidation)
    => \A k \in 1..Len(ReturnedSuggestions) :
         ReturnedSuggestions[k].strategy = "surrounding_context"
           => CountMatchesFrom(ReturnedSuggestions[k].oldString,
                               TheOperation.oldString, 0) = 1

\* ---- C27
\* C27: EnhancedTSEditor.previewChange never modifies the file: it answers
\* what smartReplace would do, with a diff, and writes nothing.
C27_PreviewChangeWritesNothing ==
  Returned("previewChange")
    => /\ file = last.fileBefore
       /\ last.written = <<>>

\* ---- C28
\* C28: no phantom success: editWithContext answers success only when the
\* content of the file after the call differs from the content before it by
\* a replacement of oldString; an edit that leaves the file as it was (the
\* occurrence lying in a matching scope other than the first, or no
\* occurrence at all with requireUnique false) is not reported as applied.
C28_NoPhantomSuccess ==
  (Returned("editWithContext") /\ last.result.success)
    => /\ Includes(last.fileBefore, TheOperation.oldString)
       /\ file # last.fileBefore

\* ---- C29
\* the declarations of the kind ("function" or "class") that have the name
\* the call was given
NamedSpans ==
  {k \in 1..Len(nodes) :
     \/ /\ last.call = "refactorFunction"
        /\ nodes[k].scope = "function"
        /\ nodes[k].name = last.operations[1].context.withinFunction
     \/ /\ last.call = "refactorClass"
        /\ nodes[k].scope = "class"
        /\ nodes[k].name = last.operations[1].context.withinClass}

\* the lines of before above line lo and the lines below line hi are in
\* after, in the same place counted from the start and from the end
FrameKept(before, after, lo, hi) ==
  /\ Len(after) >= lo + (Len(before) - 1 - hi)
  /\ SubSeq(after, 1, lo) = SubSeq(before, 1, lo)
  /\ SubSeq(after, Len(after) - (Len(before) - 1 - hi) + 1, Len(after))
       = SubSeq(before, hi + 2, Len(before))

\* C29: refactorFunction and refactorClass never change a line outside the
\* span of the named function or class, whatever the operations and their
\* own filters, and change nothing when no declaration has the name.
C29_RefactorStaysInside ==
  (pc \in {"returned", "thrown"}
     /\ last.call \in {"refactorFunction", "refactorClass"})
    => IF NamedSpans = {} THEN file = last.fileBefore
       ELSE FrameKept(Split(last.fileBefore), Split(file),
                      CHOOSE lo \in {nodes[k].startLine : k \in NamedSpans} :
                        \A k \in NamedSpans : lo <= nodes[k].startLine,
                      CHOOSE hi \in {nodes[k].endLine : k \in NamedSpans} :
                        \A k \in NamedSpans : hi >= nodes[k].endLine)

\* ---- C30
\* the sum of a field over the tasks
RECURSIVE SumOverTasks(_, _)
SumOverTasks(tasks, field) ==
  IF Len(tasks) = 0 THEN 0
  ELSE Head(tasks)[field] + SumOverTasks(Tail(tasks), field)

\* C30: after any sequence of startTask, endCurrentTask and recordUsage
\* calls since construction or reset, the conversation totals are the sums
\* of the values passed to recordUsage and the sums of the same fields over
\* the tasks: each recordUsage call counts once, with or without a current
\* task.
C30_TotalsAreSums ==
  /\ tracker.conversationUsage.totalPromptTokens = tracker.recorded.prompt_tokens
  /\ tracker.conversationUsage.totalCompletionTokens
       = tracker.recorded.completion_tokens
  /\ tracker.conversationUsage.totalTokens = tracker.recorded.total_tokens
  /\ tracker.conversationUsage.totalRequests = tracker.recorded.requests
  /\ tracker.conversationUsage.totalPromptTokens
       = SumOverTasks(tracker.conversationUsage.tasks, "totalPromptTokens")
  /\ tracker.conversationUsage.totalCompletionTokens
       = SumOverTasks(tracker.conversationUsage.tasks, "totalCompletionTokens")
  /\ tracker.conversationUsage.totalTokens
       = SumOverTasks(tracker.conversationUsage.tasks, "totalTokens")
  /\ tracker.conversationUsage.totalRequests
       = SumOverTasks(tracker.conversationUsage.tasks, "requestCount")

====
